---- MODULE Spec2Model ----
(***************************************************************************)
(* A model of flex_model's HookFunction (core/hook_function.py), of the    *)
(* nested-container traversal it uses (utils.py: _flatten / _unflatten)    *)
(* and of the distributed backend switch (distributed/distributed_api.py). *)
(*                                                                         *)
(* Python values are records [type, items, shape, data, device]:                   *)
(*   type   the exact Python type of the value (type(obj).__name__)        *)
(*   items  the children of a container or of an InternalNode              *)
(*   shape  the shape of a Tensor, or the val of a LeafNode                *)
(*   data   the elements of a Tensor in row-major order, or the value of   *)
(*          an int                                                         *)
(*   device the device of a Tensor ("" for every other value)              *)
(* Dimensions and sequence positions count from 1 here, from 0 in Python.  *)
(***************************************************************************)
EXTENDS Integers, Sequences, FiniteSets, TLC

VARIABLES
    tc,      \* the traversal on its own: its input and what it returned
    xf,      \* the transfer on its own: the shards of a group and the results
    hooks,   \* the HookFunction instances of the process
    shared_state,  \* what the instances share: offload_mode and output_ptr
    dist_env,      \* the distributed environment of the process
    last,    \* the latest invocation: its arguments and what it did
    log,     \* the invocations that ran their offload step, in call order
    _ACTIVE_BACKEND,  \* distributed_api's global: the active backend or None
    api,     \* distributed_api: the accelerate state it probes, its latest
             \* call and the latest call that took effect
    spmd     \* the processes of an SPMD run, one per rank, and what each
             \* has contributed to the collectives of its group

vars == <<tc, xf, hooks, shared_state, dist_env, last, log, _ACTIVE_BACKEND, api,
         spmd>>

(***************************************************************************)
(* Bounds of the model.                                                    *)
(***************************************************************************)
\* Largest number of nodes (containers, tensors, scalars) of an object
\* handed to flatten.
MaxNodes == 4

\* Largest number of invocations that run their offload step.
MaxCalls == 2

\* Largest number of dimensions of a tensor sharded over a group.
MaxRank == 2

(***************************************************************************)
(* Python values.                                                          *)
(***************************************************************************)
PyValue(t, items, shape, data, device) ==
    [type |-> t, items |-> items, shape |-> shape, data |-> data,
     device |-> device]

PyNone == PyValue("NoneType", <<>>, <<>>, <<>>, "")

PyInt(n) == PyValue("int", <<>>, <<>>, <<n>>, "")

\* A tensor on the accelerator, where the hooked model runs.
PyTensor(shape, data) == PyValue("Tensor", <<>>, shape, data, "cuda")

PyTuple(items) == PyValue("tuple", items, <<>>, <<>>, "")

PyList(items) == PyValue("list", items, <<>>, <<>>, "")

\* An nn.Parameter: an instance of a subclass of Tensor.
PyParameter(shape, data) == PyValue("Parameter", <<>>, shape, data, "cuda")

\* An instance of a named tuple class, a subclass of tuple.
PyNamedTuple(items) == PyValue("NamedTuple", items, <<>>, <<>>, "")

\* A dict, by its values.
PyDict(items) == PyValue("dict", items, <<>>, <<>>, "")

\* The class a class derives from, for the classes that derive from one.
PyBases == [t \in {"Parameter", "NamedTuple"} |->
               IF t = "Parameter" THEN "Tensor" ELSE "tuple"]

\* An nn.Module handle.
PyModule == PyValue("Module", <<>>, <<>>, <<>>, "")

\* BaseModelOutputWithPast(*args): the four fields, in declaration order,
\* each defaulting to None.
BaseModelOutputWithPast(args) ==
    PyValue("BaseModelOutputWithPast",
            [i \in 1..4 |-> IF i <= Len(args) THEN args[i] ELSE PyNone],
            <<>>, <<>>, "")

(***************************************************************************)
(* utils.py: the node type registries and the node classes.                *)
(***************************************************************************)
_INTERNAL_NODE_TYPE_REGISTRY ==
    [t \in {"tuple", "list", "BaseModelOutputWithPast"} |->
        CASE t = "tuple" -> "TupleNode"
          [] t = "list" -> "ListNode"
          [] t = "BaseModelOutputWithPast" -> "BaseModelOutputWithPastNode"]

\* A leaf registry that also has the subclass of Tensor as a key.
_LEAF_NODE_TYPE_REGISTRY_with_subclass ==
    [t \in {"Tensor", "Parameter"} |-> "TensorNode"]

_LEAF_NODE_TYPE_REGISTRY == [t \in {"Tensor"} |-> "TensorNode"]

get_internal_node(internal_obj) == _INTERNAL_NODE_TYPE_REGISTRY[internal_obj.type]

get_leaf_node(leaf_obj) == _LEAF_NODE_TYPE_REGISTRY[leaf_obj.type]

\* InternalNode.__init__(children): a node object of class cls.
InternalNode(cls, children) == PyValue(cls, children, <<>>, <<>>, "")

\* LeafNode.__init__(val): a node object of class cls holding only val.
LeafNode(cls, val) == PyValue(cls, <<>>, val, <<>>, "")

is_leaf_obj(obj) == obj.type \in DOMAIN _LEAF_NODE_TYPE_REGISTRY

is_internal_obj(obj) == obj.type \in DOMAIN _INTERNAL_NODE_TYPE_REGISTRY

\* isinstance(node, LeafNode)
is_leaf_node(node) == node.type \in {"LeafNode", "TensorNode"}

\* isinstance(node, InternalNode)
is_internal_node(node) ==
    node.type \in {"InternalNode", "TupleNode", "ListNode",
                   "BaseModelOutputWithPastNode"}

\* TupleNode.flatten / ListNode.flatten / BaseModelOutputWithPastNode.flatten:
\* the contents of the instance as a tuple, in order.
NodeFlatten(internal_node, instance) ==
    CASE internal_node.type = "TupleNode" -> instance.items
      [] internal_node.type = "ListNode" -> instance.items
      [] internal_node.type = "BaseModelOutputWithPastNode" ->
            <<instance.items[1], instance.items[2],
              instance.items[3], instance.items[4]>>

\* TupleNode.unflatten / ListNode.unflatten /
\* BaseModelOutputWithPastNode.unflatten: pack the children again.
NodeUnflatten(node, children) ==
    CASE node.type = "TupleNode" -> PyTuple(children)
      [] node.type = "ListNode" -> PyList(children)
      [] node.type = "BaseModelOutputWithPastNode" ->
            BaseModelOutputWithPast(children)

(***************************************************************************)
(* utils.py: node equality.                                                *)
(***************************************************************************)
RECURSIVE _eq_dfs(_, _)
RECURSIVE _eq_children(_, _, _)

\* _dfs(node1, node2) of InternalNode.__eq__
_eq_dfs(node1, node2) ==
    IF node1.type # node2.type THEN FALSE
    ELSE IF is_leaf_node(node1) /\ is_leaf_node(node2) THEN TRUE
    ELSE IF is_internal_node(node1) /\ is_internal_node(node2)
    THEN IF Len(node1.items) # Len(node2.items) THEN FALSE
         ELSE _eq_children(node1.items, node2.items, 1)
    ELSE node1 = node2

\* all(subtrees_equal) over zip(node1.children, node2.children), from i on.
_eq_children(children1, children2, i) ==
    IF i > Len(children1) THEN TRUE
    ELSE _eq_dfs(children1[i], children2[i])
         /\ _eq_children(children1, children2, i + 1)

\* InternalNode.__eq__(self, other)
InternalNode_eq(self, other) == _eq_dfs(self, other)

\* TensorNode.__eq__(self, other)
TensorNode_eq(self, other) ==
    IF other.type # "TensorNode" THEN FALSE
    ELSE self.shape = other.shape

\* node1 == node2 as Python evaluates it: the __eq__ of the left operand,
\* and for a scalar on the left that does not know the right operand, the
\* __eq__ of the right operand.
NodeEq(node1, node2) ==
    IF is_internal_node(node1) THEN InternalNode_eq(node1, node2)
    ELSE IF node1.type = "TensorNode" THEN TensorNode_eq(node1, node2)
    ELSE IF is_internal_node(node2) THEN InternalNode_eq(node2, node1)
    ELSE IF node2.type = "TensorNode" THEN TensorNode_eq(node2, node1)
    ELSE node1 = node2

(***************************************************************************)
(* utils.py: _flatten.  _dfs returns the node of obj; the leaves it        *)
(* appended to the shared list are returned with it.                       *)
(***************************************************************************)
RECURSIVE _flatten_dfs(_)
RECURSIVE _flatten_children(_, _)

_flatten_dfs(obj) ==
    IF is_leaf_obj(obj)
    THEN [node |-> LeafNode(get_leaf_node(obj), obj.shape), leaves |-> <<obj>>]
    ELSE IF is_internal_obj(obj)
    THEN LET internal_node == InternalNode(get_internal_node(obj), <<>>)
             unvisited_children == NodeFlatten(internal_node, obj)
             done == _flatten_children(unvisited_children, 1)
         IN  [node |-> InternalNode(internal_node.type, done.nodes),
              leaves |-> done.leaves]
    ELSE [node |-> obj, leaves |-> <<>>]

\* The loop "for child in unvisited_children", from position i on.
_flatten_children(unvisited_children, i) ==
    IF i > Len(unvisited_children)
    THEN [nodes |-> <<>>, leaves |-> <<>>]
    ELSE LET first == _flatten_dfs(unvisited_children[i])
             rest == _flatten_children(unvisited_children, i + 1)
         IN  [nodes |-> <<first.node>> \o rest.nodes,
              leaves |-> first.leaves \o rest.leaves]

\* A _flatten returning the leaves last first.
_flatten_leaves_reversed(root_obj) ==
    LET r == _flatten_dfs(root_obj)
    IN  [template |-> r.node,
         leaves |-> [i \in 1..Len(r.leaves) |-> r.leaves[Len(r.leaves) + 1 - i]]]

\* _flatten(root_obj) = (order[0], leaves)
_flatten(root_obj) ==
    LET r == _flatten_dfs(root_obj)
    IN  [template |-> r.node, leaves |-> r.leaves]

(***************************************************************************)
(* utils.py: _unflatten.  The leaves are reversed and popped from the end. *)
(* _dfs returns ok = FALSE when pop() finds the list empty (IndexError).   *)
(***************************************************************************)
Reversed(s) == [i \in 1..Len(s) |-> s[Len(s) + 1 - i]]

RECURSIVE _unflatten_dfs(_, _)
RECURSIVE _unflatten_children(_, _, _)

_unflatten_dfs(node, stack) ==
    IF is_leaf_node(node)
    THEN IF Len(stack) = 0
         THEN [ok |-> FALSE, obj |-> PyNone, stack |-> stack]
         ELSE [ok |-> TRUE, obj |-> stack[Len(stack)],
               stack |-> SubSeq(stack, 1, Len(stack) - 1)]
    ELSE IF is_internal_node(node)
    THEN LET done == _unflatten_children(node.items, 1, stack)
         IN  IF done.ok
             THEN [ok |-> TRUE, obj |-> NodeUnflatten(node, done.objs),
                   stack |-> done.stack]
             ELSE [ok |-> FALSE, obj |-> PyNone, stack |-> done.stack]
    ELSE [ok |-> TRUE, obj |-> node, stack |-> stack]

\* The generator "_dfs(child) for child in node.children", from position i.
_unflatten_children(children, i, stack) ==
    IF i > Len(children)
    THEN [ok |-> TRUE, objs |-> <<>>, stack |-> stack]
    ELSE LET first == _unflatten_dfs(children[i], stack)
         IN  IF ~first.ok
             THEN [ok |-> FALSE, objs |-> <<>>, stack |-> first.stack]
             ELSE LET rest == _unflatten_children(children, i + 1, first.stack)
                  IN  [ok |-> rest.ok, objs |-> <<first.obj>> \o rest.objs,
                       stack |-> rest.stack]

\* _unflatten without "leaves = list(reversed(leaves))".
_unflatten_unreversed(root_node, leaves) ==
    LET r == _unflatten_dfs(root_node, leaves)
    IN  [ok |-> r.ok, obj |-> r.obj]

\* An _unflatten that raises when leaves are left over.
_unflatten_exact(root_node, leaves) ==
    LET r == _unflatten_dfs(root_node, Reversed(leaves))
    IN  IF r.ok /\ Len(r.stack) = 0
        THEN [ok |-> TRUE, obj |-> r.obj]
        ELSE [ok |-> FALSE, obj |-> PyNone]

\* _unflatten(root_node, leaves): [ok, obj]; ok = FALSE is IndexError.
_unflatten(root_node, leaves) ==
    LET r == _unflatten_dfs(root_node, Reversed(leaves))
    IN  [ok |-> r.ok, obj |-> r.obj]

(***************************************************************************)
(* Tensors: torch.cat and the slicing of a tensor along one dimension, on  *)
(* the row-major element list.                                             *)
(***************************************************************************)
RECURSIVE Prod(_, _, _)
\* shape[i] * ... * shape[j]
Prod(shape, i, j) == IF i > j THEN 1 ELSE shape[i] * Prod(shape, i + 1, j)

RECURSIVE SumDim(_, _, _)
\* The sizes along dim of the tensors ts[i..], added up.
SumDim(ts, dim, i) ==
    IF i > Len(ts) THEN 0 ELSE ts[i].shape[dim] + SumDim(ts, dim, i + 1)

\* torch.cat(ts, dim) of tensors of one shape.
TorchCat(ts, dim) ==
    LET shape == ts[1].shape
        n == Len(ts)
        outer == Prod(shape, 1, dim - 1)
        inner == Prod(shape, dim, Len(shape))
    IN  PyValue("Tensor", <<>>,
                [shape EXCEPT ![dim] = SumDim(ts, dim, 1)],
                [k \in 1..(outer * n * inner) |->
                    LET o == (k - 1) \div (n * inner)
                        rem == (k - 1) % (n * inner)
                    IN  ts[(rem \div inner) + 1].data[o * inner + (rem % inner) + 1]],
                ts[1].device)

\* The r-th (from 0) of n contiguous equal pieces of t along dim.
TorchChunk(t, n, dim, r) ==
    LET outer == Prod(t.shape, 1, dim - 1)
        inner == Prod(t.shape, dim, Len(t.shape))
        piece == inner \div n
    IN  PyValue("Tensor", <<>>,
                [t.shape EXCEPT ![dim] = t.shape[dim] \div n],
                [k \in 1..(outer * piece) |->
                    t.data[((k - 1) \div piece) * inner + r * piece
                           + ((k - 1) % piece) + 1]],
                t.device)

(***************************************************************************)
(* flex_model.distributed: the collect and disperse functions.  A bound    *)
(* function is a record [kind, dim]; kind "None" is an unset attribute.    *)
(* The process environment env holds                                       *)
(*   torch_dist  torch.distributed.is_initialized()                        *)
(*   backend     whether _ACTIVE_BACKEND is set                            *)
(*   tp_size, tp_rank   the tensor-parallel group size and the local rank  *)
(*   act_dist, in_pp    activation_parallel_is_initialized(),              *)
(*                      in_pipeline_parallel_group()                       *)
(***************************************************************************)
Fn(kind, dim) == [kind |-> kind, dim |-> dim]

FnNone == Fn("None", 0)

\* The None entries of expected_shape.
NoneDim == 0 - 1

\* The axes where expected_shape names a size other than the observed one.
ShardedDims(shape, expected_shape) ==
    {i \in 1..Len(shape) :
        /\ i <= Len(expected_shape)
        /\ expected_shape[i] # NoneDim
        /\ expected_shape[i] # shape[i]}

\* parse_collect_and_distribute_from_tensor(tensor, expected_shape):
\* identity functions when no axis differs, an all-gather and its inverse
\* along the axis that differs otherwise.
parse_collect_and_distribute_from_tensor(tensor, expected_shape) ==
    LET dims == ShardedDims(tensor.shape, expected_shape)
    IN  IF dims = {}
        THEN [collect |-> Fn("identity", 0), disperse |-> Fn("identity", 0)]
        ELSE LET d == CHOOSE i \in dims : \A j \in dims : i <= j
             IN  [collect |-> Fn("all_gather", d), disperse |-> Fn("scatter", d)]

\* The tensor-parallel group size a collective runs over: one process when
\* no distributed runtime is there.
TpSize(env) == IF env.torch_dist /\ env.backend THEN env.tp_size ELSE 1

TpRank(env) == IF env.torch_dist /\ env.backend THEN env.tp_rank ELSE 0

\* Calling a bound function on the local tensor; shards are the tensors the
\* ranks of the tensor-parallel group hold, in rank order (the local one at
\* its rank).  status is "ok" or the error raised.
CallTransfer(fn, tensor, shards, env) ==
    CASE fn.kind = "None" ->
            [status |-> "TypeError", tensor |-> tensor]
      [] fn.kind = "identity" ->
            [status |-> "ok", tensor |-> tensor]
      [] fn.kind = "all_gather" ->
            [status |-> "ok",
             tensor |-> IF TpSize(env) = 1 THEN tensor
                        ELSE TorchCat(shards, fn.dim)]
      [] fn.kind = "scatter" ->
            IF tensor.shape[fn.dim] % TpSize(env) # 0
            THEN [status |-> "UnevenShardError", tensor |-> tensor]
            ELSE [status |-> "ok",
                  tensor |-> TorchChunk(tensor, TpSize(env), fn.dim, TpRank(env))]
      [] OTHER ->
            [status |-> "TypeError", tensor |-> tensor]

(***************************************************************************)
(* Python list indexing and slicing, on positions counted from 0.          *)
(***************************************************************************)
\* The position a slice bound denotes in a list of n elements.
SliceBound(i, n) ==
    LET j == IF i < 0 THEN i + n ELSE i
    IN  IF j < 0 THEN 0 ELSE IF j > n THEN n ELSE j

\* seq[:stop]
PySliceTo(seq, stop) == SubSeq(seq, 1, SliceBound(stop, Len(seq)))

\* seq[start:]
PySliceFrom(seq, start) == SubSeq(seq, SliceBound(start, Len(seq)) + 1, Len(seq))

\* seq[i] raises IndexError outside -n..n-1
PyIndexOk(seq, i) == (0 - Len(seq)) <= i /\ i < Len(seq)

PyIndex(seq, i) == seq[(IF i < 0 THEN i + Len(seq) ELSE i) + 1]

(***************************************************************************)
(* hook_function.py: editing functions.  The user's editing functions are  *)
(* named by what they do to the full tensor.                               *)
(***************************************************************************)
\* _parse_editing_function
_parse_editing_function(edit_function) == edit_function

\* A default editing function that adds to its input.
default_editing_function_adding(current_module, inputs) ==
    [inputs EXCEPT !.data = [k \in 1..Len(inputs.data) |-> inputs.data[k] + 1]]

\* default_editing_function(current_module, inputs, save_ctx, modules)
default_editing_function(current_module, inputs) == inputs

\* Calling the editing function named kind on the full tensor.
CallEdit(kind, current_module, inputs) ==
    CASE kind = "default_editing_function" ->
            [status |-> "ok",
             tensor |-> default_editing_function(current_module, inputs)]
      [] kind = "add_one" ->
            \* inputs + 1
            [status |-> "ok",
             tensor |-> [inputs EXCEPT
                            !.data = [k \in 1..Len(inputs.data) |->
                                         inputs.data[k] + 1]]]
      [] kind = "repeat_last_dim" ->
            \* torch.cat([inputs, inputs], dim=-1)
            [status |-> "ok",
             tensor |-> TorchCat(<<inputs, inputs>>, Len(inputs.shape))]
      [] kind = "first_of_last_dim" ->
            \* inputs[..., :1]
            [status |-> "ok",
             tensor |-> LET n == inputs.shape[Len(inputs.shape)]
                        IN  PyValue("Tensor", <<>>,
                                [inputs.shape EXCEPT ![Len(inputs.shape)] = 1],
                                [k \in 1..(Len(inputs.data) \div n) |->
                                    inputs.data[(k - 1) * n + 1]],
                                inputs.device)]
      [] kind = "raises" ->
            [status |-> "EditError", tensor |-> inputs]
      [] OTHER ->
            [status |-> "TypeError", tensor |-> inputs]

(***************************************************************************)
(* hook_function.py: HookFunction.                                         *)
(***************************************************************************)
\* HookFunction.__init__; editing_function "None" is the default argument.
HookFunction(module_name, expected_shape, editing_function, unpack_idx) ==
    [module_name |-> module_name,
     expected_shape |-> expected_shape,
     editing_function |-> IF editing_function = "None"
                          THEN "default_editing_function"
                          ELSE editing_function,
     unpack_idx |-> unpack_idx,
     _shared_state |-> FALSE,
     _hook_type |-> "None",
     _collect |-> FnNone,
     _disperse |-> FnNone,
     _edit |-> FnNone,
     _offload |-> FnNone]

\* The keys of hook_type_to_impl_fn.
hook_type_to_impl_fn ==
    {"forward", "full_backward", "tensor", "forward_pre", "full_backward_pre"}

\* The methods HookFunction defines for the implementations to call.
HookFunctionMethods == {"_template_handle_tensor", "_template_handle_layer_outputs"}

\* The state of one invocation as it runs through the pipeline: the error
\* raised so far (status), the hook and the sink as the invocation has left
\* them, the steps run (trace), the tensor in hand, and what the steps saw:
\*   target     the container the pipeline was started on
\*   start      the tensor handed to _template_handle_tensor
\*   found      the four runtime functions as that call found them
\*   collected  what collect returned
\*   module     the module handed to the editing function
\*   edited     what the editing function returned
\*   retval     the value returned to the caller
Run(hook, output_ptr) ==
    [status |-> "ok", hook |-> hook, output_ptr |-> output_ptr,
     trace |-> <<>>, tensor |-> PyNone, target |-> PyNone, start |-> PyNone,
     found |-> <<>>, collected |-> PyNone, module |-> PyNone,
     edited |-> PyNone, retval |-> PyNone]

Raise(r, error) == [r EXCEPT !.status = error]

Ran(r, step) == [r EXCEPT !.trace = Append(@, step)]

\* A slicing that takes the first leaf when unpack_idx finds none.
SplitLeavesClamped(treedef, leaves, unpack_idx) ==
    LET idx == IF PyIndexOk(leaves, unpack_idx) THEN unpack_idx ELSE 0
    IN  IF ~PyIndexOk(leaves, idx)
        THEN [status |-> "IndexError", treedef |-> treedef,
              left_leaves |-> <<>>, tensor |-> PyNone, right_leaves |-> <<>>]
        ELSE [status |-> "ok", treedef |-> treedef,
              left_leaves |-> PySliceTo(leaves, idx),
              tensor |-> PyIndex(leaves, idx),
              right_leaves |-> PySliceFrom(leaves, idx + 1)]

\* The slicing of _unpack_layer_outputs, on what flatten returned.
SplitLeaves(treedef, leaves, unpack_idx) ==
    IF ~PyIndexOk(leaves, unpack_idx)
    THEN [status |-> "IndexError", treedef |-> treedef,
          left_leaves |-> <<>>, tensor |-> PyNone, right_leaves |-> <<>>]
    ELSE [status |-> IF PyIndex(leaves, unpack_idx) = PyNone
                     THEN "AssertionError" ELSE "ok",
          treedef |-> treedef,
          left_leaves |-> PySliceTo(leaves, unpack_idx),
          tensor |-> PyIndex(leaves, unpack_idx),
          right_leaves |-> PySliceFrom(leaves, unpack_idx + 1)]

\* _unpack_layer_outputs: the tensor at unpack_idx and what _repack needs.
FlatSplit(flat, unpack_idx) == SplitLeaves(flat.template, flat.leaves, unpack_idx)

_unpack_layer_outputs(hook, outputs) == FlatSplit(_flatten(outputs), hook.unpack_idx)

\* A _repack that puts the edited tensor after the leaves held aside.
_repack_edited_last(unpacked, _edited_tensor) ==
    _unflatten(unpacked.treedef,
               unpacked.left_leaves \o unpacked.right_leaves \o <<_edited_tensor>>)

\* _repack(_edited_tensor), the closure _unpack_layer_outputs returns.
_repack(unpacked, _edited_tensor) ==
    _unflatten(unpacked.treedef,
               unpacked.left_leaves \o <<_edited_tensor>> \o unpacked.right_leaves)

\* _concretize_offload_function: mode_to_fn[self._shared_state.offload_mode]
_concretize_offload_function(hook, shared) ==
    IF ~hook._shared_state
    THEN [status |-> "AttributeError", fn |-> FnNone]
    ELSE IF shared.offload_mode = "CPU"
    THEN [status |-> "ok", fn |-> Fn("_offload_tensor_to_cpu", 0)]
    ELSE IF shared.offload_mode = "GPU"
    THEN [status |-> "ok", fn |-> Fn("_offload_tensor_to_gpu", 0)]
    ELSE [status |-> "KeyError", fn |-> FnNone]

\* _concretize_editing_function
_concretize_editing_function(hook) ==
    Fn(_parse_editing_function(hook.editing_function), 0)

\* _concretize_functions with the pair returned by the parser unpacked the
\* wrong way round.
_concretize_functions_swapped(hook, shared, tensor) ==
    LET parsed == parse_collect_and_distribute_from_tensor(tensor, hook.expected_shape)
        h1 == [hook EXCEPT !._collect = parsed.disperse,
                           !._disperse = parsed.collect]
        h2 == [h1 EXCEPT !._edit = _concretize_editing_function(h1)]
        off == _concretize_offload_function(h2, shared)
    IN  IF off.status = "ok"
        THEN [status |-> "ok", hook |-> [h2 EXCEPT !._offload = off.fn]]
        ELSE [status |-> off.status, hook |-> h2]

\* _concretize_functions: the attributes are assigned in source order, so an
\* error raised by a later step leaves the earlier ones assigned.
_concretize_functions(hook, shared, tensor) ==
    LET parsed == parse_collect_and_distribute_from_tensor(tensor, hook.expected_shape)
        h1 == [hook EXCEPT !._collect = parsed.collect,
                           !._disperse = parsed.disperse]
        h2 == [h1 EXCEPT !._edit = _concretize_editing_function(h1)]
        off == _concretize_offload_function(h2, shared)
    IN  IF off.status = "ok"
        THEN [status |-> "ok", hook |-> [h2 EXCEPT !._offload = off.fn]]
        ELSE [status |-> off.status, hook |-> h2]

\* activation.detach().to("cpu", non_blocking=True) / activation.detach().clone()
Captured(fn, activation) ==
    IF fn.kind = "_offload_tensor_to_cpu"
    THEN [activation EXCEPT !.device = "cpu"]
    ELSE activation

\* The offload functions storing a new list at every call.
SinkOverwrite(output_ptr, module_name, captured) ==
    [m \in DOMAIN output_ptr \cup {module_name} |->
        IF m = module_name THEN <<captured>> ELSE output_ptr[m]]

\* Offload functions that append to the list of every module name.
SinkAppendEverywhere(output_ptr, module_name, captured) ==
    [m \in DOMAIN output_ptr \cup {module_name} |->
        IF m \in DOMAIN output_ptr THEN Append(output_ptr[m], captured)
        ELSE <<captured>>]

\* The if/else of the offload functions on output_ptr, a dict from module
\* names to lists: append to a non-empty list, else store a new list.
SinkAppend(output_ptr, module_name, captured) ==
    IF module_name \in DOMAIN output_ptr /\ Len(output_ptr[module_name]) > 0
    THEN [output_ptr EXCEPT ![module_name] = Append(@, captured)]
    ELSE [m \in DOMAIN output_ptr \cup {module_name} |->
             IF m = module_name THEN <<captured>> ELSE output_ptr[m]]

\* Offload functions without the guard on the distributed state.
CallOffloadUnguarded(fn, hook, output_ptr, env, activation) ==
    IF fn.kind \notin {"_offload_tensor_to_cpu", "_offload_tensor_to_gpu"}
    THEN [status |-> "TypeError", output_ptr |-> output_ptr]
    ELSE [status |-> "ok",
          output_ptr |-> SinkAppend(output_ptr, hook.module_name,
                                    Captured(fn, activation))]

\* _offload_tensor_to_cpu / _offload_tensor_to_gpu, called as self._offload.
\* dist.activation_parallel_is_initialized() asserts an active backend.
CallOffload(fn, hook, output_ptr, env, activation) ==
    IF fn.kind \notin {"_offload_tensor_to_cpu", "_offload_tensor_to_gpu"}
    THEN [status |-> "TypeError", output_ptr |-> output_ptr]
    ELSE IF ~env.torch_dist
    THEN [status |-> "ok",
          output_ptr |-> SinkAppend(output_ptr, hook.module_name,
                                    Captured(fn, activation))]
    ELSE IF ~env.backend
    THEN [status |-> "AssertionError", output_ptr |-> output_ptr]
    ELSE IF env.act_dist /\ env.in_pp
    THEN [status |-> "ok",
          output_ptr |-> SinkAppend(output_ptr, hook.module_name,
                                    Captured(fn, activation))]
    ELSE [status |-> "ok", output_ptr |-> output_ptr]

\* The shards the ranks of the tensor-parallel group hold when the local
\* rank holds tensor: same shape on every rank, other values on the peers.
PeerShards(tensor, env) ==
    [p \in 1..TpSize(env) |->
        IF p - 1 = TpRank(env)
        THEN tensor
        ELSE [tensor EXCEPT !.data = [k \in 1..Len(tensor.data) |->
                                         tensor.data[k] + 10 * p]]]

\* The four runtime functions of a hook.
RuntimeFns(hook) == <<hook._collect, hook._disperse, hook._edit, hook._offload>>

\* The steps of _template_handle_tensor, each on the run r the step before
\* it left; a step does nothing once an error is raised.

\* Concretize functions: the if / elif / else on fns_are_undefined.
ConcretizeStep(r, shared, tensor) ==
    LET fns_to_check == RuntimeFns(r.hook)
        fns_are_undefined == [i \in 1..4 |-> fns_to_check[i] = FnNone]
        all_undefined == \A i \in 1..4 : fns_are_undefined[i]
        c == _concretize_functions(r.hook, shared, tensor)
    IN  IF all_undefined
        THEN [r EXCEPT !.trace = Append(@, "concretize"),
                       !.status = c.status, !.hook = c.hook]
        ELSE IF ~all_undefined
        THEN r
        ELSE Raise(r, "Exception")

\* tensor = self._collect(tensor), shards being what the ranks of the group
\* hand to the collective.
CollectStepOn(r, shards, env) ==
    LET c == CallTransfer(r.hook._collect, r.tensor, shards, env)
    IN  IF r.status # "ok" THEN r
        ELSE IF r.hook._collect = FnNone THEN Raise(r, "TypeError")
        ELSE [r EXCEPT !.trace = Append(@, "collect"), !.status = c.status,
                       !.tensor = c.tensor, !.collected = c.tensor]

\* tensor = self._collect(tensor)
CollectStep(r, env) == CollectStepOn(r, PeerShards(r.tensor, env), env)

\* self._offload(tensor)
OffloadStep(r, env) ==
    LET c == CallOffload(r.hook._offload, r.hook, r.output_ptr, env, r.tensor)
    IN  IF r.status # "ok" THEN r
        ELSE IF r.hook._offload = FnNone THEN Raise(r, "TypeError")
        ELSE [r EXCEPT !.trace = Append(@, "offload"), !.status = c.status,
                       !.output_ptr = c.output_ptr]

\* tensor = self._edit(module, tensor, self._shared_state.save_ctx,
\*                     self._shared_state.modules)
EditStep(r, module) ==
    LET c == CallEdit(r.hook._edit.kind, module, r.tensor)
    IN  IF r.status # "ok" THEN r
        ELSE IF ~r.hook._shared_state THEN Raise(r, "AttributeError")
        ELSE IF r.hook._edit = FnNone THEN Raise(r, "TypeError")
        ELSE [r EXCEPT !.trace = Append(@, "edit"), !.status = c.status,
                       !.tensor = c.tensor,
                       !.edited = IF c.status = "ok" THEN c.tensor ELSE PyNone]

\* tensor = self._disperse(tensor)
DisperseStep(r, env) ==
    LET c == CallTransfer(r.hook._disperse, r.tensor, <<r.tensor>>, env)
    IN  IF r.status # "ok" THEN r
        ELSE IF r.hook._disperse = FnNone THEN Raise(r, "TypeError")
        ELSE [r EXCEPT !.trace = Append(@, "disperse"), !.status = c.status,
                       !.tensor = c.tensor]

\* _template_handle_tensor without its assert.
ShapeCheckStepNoAssert(r, start_shape) ==
    IF r.status # "ok" THEN r
    ELSE [r EXCEPT !.trace = Append(@, "shape_check"), !.retval = r.tensor]

\* assert start_shape == tensor.shape; return tensor
ShapeCheckStep(r, start_shape) ==
    IF r.status # "ok" THEN r
    ELSE IF start_shape # r.tensor.shape
    THEN [r EXCEPT !.trace = Append(@, "shape_check"), !.status = "ShapeMismatch"]
    ELSE [r EXCEPT !.trace = Append(@, "shape_check"), !.retval = r.tensor]

\* A _template_handle_tensor that offloads after the editing function.
_template_handle_tensor_offload_late(r, shared, env, module, tensor) ==
    ShapeCheckStep(
        DisperseStep(
            OffloadStep(
                EditStep(
                    CollectStep(
                        ConcretizeStep(
                            [r EXCEPT !.start = tensor, !.tensor = tensor,
                                      !.found = RuntimeFns(r.hook),
                                      !.module = module],
                            shared, tensor),
                        env),
                    module),
                env),
            env),
        tensor.shape)

\* _template_handle_tensor(module, tensor), on the run r of the invocation.
_template_handle_tensor(r, shared, env, module, tensor) ==
    ShapeCheckStep(
        DisperseStep(
            EditStep(
                OffloadStep(
                    CollectStep(
                        ConcretizeStep(
                            [r EXCEPT !.start = tensor, !.tensor = tensor,
                                      !.found = RuntimeFns(r.hook),
                                      !.module = module],
                            shared, tensor),
                        env),
                    env),
                module),
            env),
        tensor.shape)

\* The repacking of _template_handle_layer_outputs, on the run r that
\* _template_handle_tensor left.
RepackStep(r, unpacked) ==
    LET edited_inputs_or_outputs == _repack(unpacked, r.tensor)
    IN  IF r.status # "ok" THEN r
        ELSE IF ~edited_inputs_or_outputs.ok
        THEN [r EXCEPT !.trace = Append(@, "repack"), !.status = "IndexError",
                       !.retval = PyNone]
        ELSE [r EXCEPT !.trace = Append(@, "repack"),
                       !.retval = edited_inputs_or_outputs.obj]

\* The body of _template_handle_layer_outputs once the outputs are unpacked.
HandleUnpacked(r, shared, env, module, unpacked) ==
    IF unpacked.status # "ok"
    THEN [r EXCEPT !.trace = Append(@, "unpack"), !.status = unpacked.status]
    ELSE RepackStep(
             _template_handle_tensor([r EXCEPT !.trace = Append(@, "unpack")],
                                     shared, env, module, unpacked.tensor),
             unpacked)

\* _template_handle_layer_outputs(module, inputs_or_outputs)
_template_handle_layer_outputs(r, shared, env, module, inputs_or_outputs) ==
    HandleUnpacked([r EXCEPT !.target = inputs_or_outputs], shared, env, module,
                   _unpack_layer_outputs(r.hook, inputs_or_outputs))

\* A forward hook that edits its inputs.
_forward_hook_impl_on_inputs(r, shared, env, args) ==
    IF Len(args) # 3 THEN Raise(r, "TypeError")
    ELSE _template_handle_layer_outputs(r, shared, env, args[1], args[2])

\* _forward_hook_impl(module, _inputs, outputs)
_forward_hook_impl(r, shared, env, args) ==
    IF Len(args) # 3 THEN Raise(r, "TypeError")
    ELSE _template_handle_layer_outputs(r, shared, env, args[1], args[3])

\* _full_backward_hook_impl(module, grad_inputs, _grad_outputs)
_full_backward_hook_impl(r, shared, env, args) ==
    IF Len(args) # 3 THEN Raise(r, "TypeError")
    ELSE _template_handle_layer_outputs(r, shared, env, args[1], args[2])

\* _tensor_hook_impl(grad): no module since this is tensor-level.
_tensor_hook_impl(r, shared, env, args) ==
    IF Len(args) # 1 THEN Raise(r, "TypeError")
    ELSE _template_handle_tensor([r EXCEPT !.target = args[1]], shared, env,
                                 PyNone, args[1])

\* _forward_pre_hook_impl(module, args): calls self._template_layer_outputs,
\* an attribute HookFunction does not have.
_forward_pre_hook_impl(r, shared, env, args) ==
    IF Len(args) # 2 THEN Raise(r, "TypeError")
    ELSE IF "_template_layer_outputs" \in HookFunctionMethods
    THEN _template_handle_layer_outputs(r, shared, env, args[1], args[2])
    ELSE Raise(r, "AttributeError")

\* _full_backward_pre_hook_impl(module, grad_outputs): the same call.
_full_backward_pre_hook_impl(r, shared, env, args) ==
    IF Len(args) # 2 THEN Raise(r, "TypeError")
    ELSE IF "_template_layer_outputs" \in HookFunctionMethods
    THEN _template_handle_layer_outputs(r, shared, env, args[1], args[2])
    ELSE Raise(r, "AttributeError")

\* A dispatch that takes a hook of no registered type for a forward hook.
_dispatch_hook_function_defaulting(r, shared, env, hook_function_args) ==
    CASE r.hook._hook_type = "full_backward" ->
            _full_backward_hook_impl(r, shared, env, hook_function_args)
      [] r.hook._hook_type = "tensor" ->
            _tensor_hook_impl(r, shared, env, hook_function_args)
      [] r.hook._hook_type = "forward_pre" ->
            _forward_pre_hook_impl(r, shared, env, hook_function_args)
      [] r.hook._hook_type = "full_backward_pre" ->
            _full_backward_pre_hook_impl(r, shared, env, hook_function_args)
      [] OTHER ->
            _forward_hook_impl(r, shared, env, hook_function_args)

\* _dispatch_hook_function: hook_type_to_impl_fn[self._hook_type](*args)
_dispatch_hook_function(r, shared, env, hook_function_args) ==
    CASE r.hook._hook_type \notin hook_type_to_impl_fn ->
            Raise(r, "KeyError")
      [] r.hook._hook_type = "forward" ->
            _forward_hook_impl(r, shared, env, hook_function_args)
      [] r.hook._hook_type = "full_backward" ->
            _full_backward_hook_impl(r, shared, env, hook_function_args)
      [] r.hook._hook_type = "tensor" ->
            _tensor_hook_impl(r, shared, env, hook_function_args)
      [] r.hook._hook_type = "forward_pre" ->
            _forward_pre_hook_impl(r, shared, env, hook_function_args)
      [] r.hook._hook_type = "full_backward_pre" ->
            _full_backward_pre_hook_impl(r, shared, env, hook_function_args)

\* A __call__ that drops the keyword arguments.
__call__dropping_kwargs(hook, shared, env, args, kwargs) ==
    _dispatch_hook_function(Run(hook, shared.output_ptr), shared, env, args)

\* HookFunction.__call__(*args, **kwargs)
__call__(hook, shared, env, args, kwargs) ==
    IF Len(kwargs) # 0
    THEN Raise(Run(hook, shared.output_ptr), "NotImplementedError")
    ELSE _dispatch_hook_function(Run(hook, shared.output_ptr), shared, env, args)

(***************************************************************************)
(* The objects handed to the traversal: every nesting of tuples, lists and *)
(* BaseModelOutputWithPast over two tensors and two scalars, of at most    *)
(* MaxNodes nodes.                                                         *)
(***************************************************************************)
TensorA == PyTensor(<<1, 2>>, <<1, 2>>)

TensorB == PyTensor(<<2, 1>>, <<3, 4>>)

Atoms == {TensorA, TensorB, PyNone, PyInt(7)}

RECURSIVE ObjsOfSize(_)
RECURSIVE ForestsOfSize(_)

ObjsOfSize(n) ==
    IF n = 1
    THEN Atoms \cup {PyTuple(<<>>), PyList(<<>>), BaseModelOutputWithPast(<<>>)}
    ELSE {PyTuple(f) : f \in ForestsOfSize(n - 1)}
         \cup {PyList(f) : f \in ForestsOfSize(n - 1)}
         \cup {BaseModelOutputWithPast(f) :
                  f \in {g \in ForestsOfSize(n - 1) : Len(g) <= 4}}

ForestsOfSize(m) ==
    IF m = 0
    THEN {<<>>}
    ELSE UNION {{<<o>> \o f : o \in ObjsOfSize(k), f \in ForestsOfSize(m - k)} :
                   k \in 1..m}

\* The objects of at most max_nodes nodes.
Objs(max_nodes) == UNION {ObjsOfSize(n) : n \in 1..max_nodes}

(***************************************************************************)
(* The process: its hooks, the shared state, the environment.              *)
(***************************************************************************)
HookIds == {1, 2}

ModuleNames == {"layers.0", "layers.1"}

OffloadModes == {"CPU", "GPU", "DISK"}

\* What FlexModel's registration sets on a hook: the hook type and the
\* shared state.
Registered(hook, hook_type, attached) ==
    [hook EXCEPT !._hook_type = hook_type, !._shared_state = attached]

Env(torch_dist, backend, tp_size, tp_rank, act_dist, in_pp) ==
    [torch_dist |-> torch_dist, backend |-> backend, tp_size |-> tp_size,
     tp_rank |-> tp_rank, act_dist |-> act_dist, in_pp |-> in_pp]

\* One process, no torch.distributed.
EnvSingle == Env(FALSE, TRUE, 1, 0, FALSE, FALSE)

\* A rank of a tensor-parallel group of two, in the pipeline-parallel group.
EnvTp2(rank) == Env(TRUE, TRUE, 2, rank, TRUE, TRUE)

\* The same, outside the pipeline-parallel group.
EnvTp2NoPp(rank) == Env(TRUE, TRUE, 2, rank, TRUE, FALSE)

\* A rank of a tensor-parallel group of two before
\* initialize_activation_parallel.
EnvTp2NoAct(rank) == Env(TRUE, TRUE, 2, rank, FALSE, TRUE)

\* A process in which torch.distributed is initialized, before any backend.
EnvTorch == Env(TRUE, FALSE, 1, 0, FALSE, FALSE)

\* The same without torch.distributed.
EnvNoTorch == Env(FALSE, FALSE, 1, 0, FALSE, FALSE)

NoCall ==
    [h |-> 0, args |-> <<>>, kwargs |-> <<>>, mode |-> "",
     run |-> Run(HookFunction("", <<>>, "None", 0), <<>>)]

\* The traversal harness at rest.
TreeIdle ==
    tc = [pc |-> "idle", obj |-> PyNone, template |-> PyNone, leaves |-> <<>>,
          ok |-> TRUE, out |-> PyNone, other |-> PyNone,
          other_template |-> PyNone, eq |-> FALSE, given |-> <<>>]

\* The transfer harness at rest.
TransferIdle ==
    xf = [pc |-> "idle", g |-> 1, dim |-> 1, full |-> PyNone, shards |-> <<>>,
          fns |-> <<>>, collected |-> <<>>, dispersed |-> <<>>]

\* No SPMD run.
SpmdIdle == spmd = [ranks |-> <<>>, posted |-> <<>>]

\* The hooks at rest, for the specifications that do not invoke them.
HooksIdle ==
    /\ hooks = [h \in HookIds |-> HookFunction("layers.0", <<>>, "None", 0)]
    /\ shared_state = [offload_mode |-> "CPU", output_ptr |-> <<>>]
    /\ dist_env = EnvSingle
    /\ last = NoCall
    /\ log = <<>>

(***************************************************************************)
(* distributed_api.py: the backend switch.  The functions take the value   *)
(* of the global _ACTIVE_BACKEND as active and return its new value.       *)
(***************************************************************************)
_SUPPORTED_BACKENDS ==
    [torch |-> "TorchDistributedBackend",
     accelerate |-> "AccelerateDistributedBackend"]

\* _parse_backend(): the backend class for the state of torch.distributed
\* and of accelerate's PartialState.
_parse_backend(torch_is_initialized, distributed_type) ==
    LET hf_distributed ==
            \/ distributed_type = "DEEPSPEED"
            \/ distributed_type = "FSDP"
            \/ distributed_type = "MEGATRON_LM"
    IN  IF torch_is_initialized /\ hf_distributed
        THEN [status |-> "ok", cls |-> _SUPPORTED_BACKENDS.accelerate]
        ELSE IF \/ (torch_is_initialized /\ ~hf_distributed)
                \/ ~torch_is_initialized
        THEN [status |-> "ok", cls |-> _SUPPORTED_BACKENDS.torch]
        ELSE [status |-> "NotImplementedError", cls |-> ""]

\* GPUDeviceMesh.build: validates world_size == tp * pp * dp.
GPUDeviceMesh_build(world_size, tp_size, pp_size, dp_size) ==
    IF world_size # tp_size * pp_size * dp_size
    THEN [status |-> "MeshError", device_mesh |-> <<>>]
    ELSE [status |-> "ok",
          device_mesh |-> <<world_size, tp_size, pp_size, dp_size>>]

\* backend_cls(device_mesh)
DistributedBackend(backend_cls, device_mesh, act_dist) ==
    [cls |-> backend_cls, device_mesh |-> device_mesh,
     activation_parallel |-> act_dist]

\* _expose_distributed_backend(backend): the new _ACTIVE_BACKEND.
_expose_distributed_backend(backend) == backend

\* initialize_distributed_backend without its assertion.
initialize_distributed_backend_unchecked(active, torch_init, dist_type, sizes) ==
    LET parsed == _parse_backend(torch_init, dist_type)
        built == GPUDeviceMesh_build(sizes[1], sizes[2], sizes[3], sizes[4])
    IN  IF parsed.status # "ok"
        THEN [status |-> parsed.status, active |-> active]
        ELSE IF built.status # "ok"
        THEN [status |-> built.status, active |-> active]
        ELSE [status |-> "ok",
              active |-> _expose_distributed_backend(
                            DistributedBackend(parsed.cls, built.device_mesh,
                                               FALSE))]

\* initialize_distributed_backend(world_size, tensor_parallel_size,
\* pipeline_parallel_size, data_parallel_size), sizes the four in order.
initialize_distributed_backend(active, torch_init, dist_type, sizes) ==
    IF sizes[1] # sizes[2] * sizes[3] * sizes[4]
    THEN [status |-> "AssertionError", active |-> active]
    ELSE LET parsed == _parse_backend(torch_init, dist_type)
             built == GPUDeviceMesh_build(sizes[1], sizes[2], sizes[3], sizes[4])
         IN  IF parsed.status # "ok"
             THEN [status |-> parsed.status, active |-> active]
             ELSE IF built.status # "ok"
             THEN [status |-> built.status, active |-> active]
             ELSE [status |-> "ok",
                   active |-> _expose_distributed_backend(
                                 DistributedBackend(parsed.cls,
                                                    built.device_mesh, FALSE))]

\* distributed_backend_is_initialized()
distributed_backend_is_initialized(active) == active # PyNone

\* A destroy that leaves the global as it is.
destroy_distributed_backend_kept(active) == active

\* destroy_distributed_backend(): the new _ACTIVE_BACKEND.
destroy_distributed_backend(active) == PyNone

\* The backend a hook's environment stands for.
BackendOf(env) ==
    IF env.backend
    THEN DistributedBackend(_SUPPORTED_BACKENDS.torch,
                            <<env.tp_size, env.tp_size, 1, 1>>, env.act_dist)
    ELSE PyNone

\* No call of distributed_api yet; accelerate is not in use.
NoApiCall ==
    [distributed_type |-> "NO", op |-> "", args |-> <<>>, status |-> "ok",
     ret |-> PyNone, recent |-> "", recent_args |-> <<>>]

\* distributed_api at rest, for the specifications that do not call it.
BackendIdle ==
    /\ _ACTIVE_BACKEND = BackendOf(dist_env)
    /\ api = NoApiCall

(***************************************************************************)
(* The values the hooked model hands to a hook.                            *)
(***************************************************************************)
HookObjs ==
    {TensorA,
     TensorB,
     PyTuple(<<TensorA, TensorB>>),
     PyList(<<PyInt(7), PyTuple(<<TensorB, TensorA>>), PyNone>>),
     BaseModelOutputWithPast(<<TensorA, PyTuple(<<PyTuple(<<TensorB>>)>>)>>),
     PyTuple(<<PyNone, PyInt(7)>>)}

\* The argument the implementations ignore.
OtherArgs == {TensorB, PyTuple(<<TensorA>>)}

\* The positional arguments PyTorch calls a hook of the given type with,
\* the value to edit drawn from objs and the argument the implementation
\* ignores from others; a hook of no registered type is called like a
\* forward hook.
ArgsFor(hook_type, objs, others) ==
    CASE hook_type = "tensor" ->
            {<<g>> : g \in {o \in objs : o.type = "Tensor"}}
      [] hook_type \in {"forward_pre", "full_backward_pre"} ->
            {<<PyModule, o>> : o \in objs}
      [] hook_type = "full_backward" ->
            {<<PyModule, o, x>> : o \in objs, x \in others}
      [] OTHER ->
            {<<PyModule, x, o>> : o \in objs, x \in others}

NoKwargs == {<<>>}

KwargsSets == {<<>>, <<"attention_mask">>}

(***************************************************************************)
(* The operations on the process.                                          *)
(***************************************************************************)
\* An invocation that takes back what it stored in the sink when it raises.
CallEffectRollingBack(h, args, kwargs, r) ==
    /\ hooks' = [hooks EXCEPT ![h] = r.hook]
    /\ shared_state' = [shared_state EXCEPT
                           !.output_ptr = IF r.status = "ok" THEN r.output_ptr
                                          ELSE @]
    /\ last' = [h |-> h, args |-> args, kwargs |-> kwargs,
                mode |-> shared_state.offload_mode, run |-> r]
    /\ log' = IF "offload" \in {r.trace[i] : i \in 1..Len(r.trace)}
              THEN Append(log, [h |-> h,
                                module_name |-> hooks[h].module_name,
                                offload |-> r.hook._offload,
                                collected |-> r.collected,
                                status |-> r.status])
              ELSE log

\* What an invocation of hook h that ran as r leaves behind.
CallEffect(h, args, kwargs, r) ==
    /\ hooks' = [hooks EXCEPT ![h] = r.hook]
    /\ shared_state' = [shared_state EXCEPT !.output_ptr = r.output_ptr]
    /\ last' = [h |-> h, args |-> args, kwargs |-> kwargs,
                mode |-> shared_state.offload_mode, run |-> r]
    /\ log' = IF "offload" \in {r.trace[i] : i \in 1..Len(r.trace)}
              THEN Append(log, [h |-> h,
                                module_name |-> hooks[h].module_name,
                                offload |-> r.hook._offload,
                                collected |-> r.collected,
                                status |-> r.status])
              ELSE log

\* The model's engine invokes hook h, with arguments drawn from the given
\* sets.
Call(h, objs, others, kwargs_sets) ==
    /\ Len(log) < MaxCalls
    /\ \E args \in ArgsFor(hooks[h]._hook_type, objs, others),
          kwargs \in kwargs_sets :
          CallEffect(h, args, kwargs,
                     __call__(hooks[h], shared_state, dist_env, args, kwargs))
    /\ UNCHANGED <<tc, xf, dist_env, _ACTIVE_BACKEND, api, spmd>>

\* The session's owner sets offload_mode on the shared state.
SetOffloadMode(mode) ==
    /\ mode # shared_state.offload_mode
    /\ shared_state' = [shared_state EXCEPT !.offload_mode = mode]
    /\ UNCHANGED <<tc, xf, hooks, dist_env, last, log, _ACTIVE_BACKEND, api, spmd>>

\* The initial states: hook 1 built and registered from the given choices,
\* hook 2 a forward hook with the default editing function.
HookInit(types, idxs, edits, expecteds, attached, names2, envs, modes) ==
    /\ TreeIdle
    /\ TransferIdle
    /\ \E t \in types, i \in idxs, e \in edits, x \in expecteds,
          a \in attached, n2 \in names2 :
          hooks = [h \in HookIds |->
                     IF h = 1
                     THEN Registered(HookFunction("layers.0", x, e, i), t, a)
                     ELSE Registered(HookFunction(n2, x, "None", 0),
                                     "forward", TRUE)]
    /\ shared_state \in {[offload_mode |-> m, output_ptr |-> <<>>] : m \in modes}
    /\ dist_env \in envs
    /\ last = NoCall
    /\ log = <<>>
    /\ BackendIdle
    /\ SpmdIdle

\* expected_shape: nothing sharded, the last axis sharded, the first axis
\* sharded.
ExpectedShapes == {<<NoneDim, NoneDim>>, <<NoneDim, 4>>, <<2, NoneDim>>}

EditingFunctions ==
    {"None", "add_one", "repeat_last_dim", "first_of_last_dim", "raises"}

(***************************************************************************)
(* The pipeline of one hook, under every editing function, sharding and    *)
(* offload mode.                                                           *)
(***************************************************************************)
PipelineInit ==
    HookInit({"forward", "tensor"}, {0}, EditingFunctions, ExpectedShapes,
             {TRUE, FALSE}, {"layers.0"},
             {EnvSingle, EnvTp2(0), EnvTp2(1)}, {"CPU", "GPU"})

PipelineNext ==
    \/ Call(1, HookObjs, {TensorB}, NoKwargs)
    \/ \E m \in OffloadModes : SetOffloadMode(m)

PipelineSpec == PipelineInit /\ [][PipelineNext]_vars

(***************************************************************************)
(* Traversal on its own: flatten an object, then unflatten the result.     *)
(***************************************************************************)
TreeInit ==
    /\ HooksIdle
    /\ BackendIdle
    /\ SpmdIdle
    /\ TransferIdle
    /\ tc \in {[pc |-> "start", obj |-> o, template |-> PyNone, leaves |-> <<>>,
             ok |-> TRUE, out |-> PyNone, other |-> PyNone,
             other_template |-> PyNone, eq |-> FALSE, given |-> <<>>] : o \in Objs(MaxNodes)}

Flatten ==
    /\ tc.pc = "start"
    /\ LET r == _flatten(tc.obj)
       IN  tc' = [tc EXCEPT !.pc = "flattened", !.template = r.template,
                            !.leaves = r.leaves]
    /\ UNCHANGED <<xf, hooks, shared_state, dist_env, last, log, _ACTIVE_BACKEND, api, spmd>>

Unflatten ==
    /\ tc.pc = "flattened"
    /\ LET r == _unflatten(tc.template, tc.leaves)
       IN  tc' = [tc EXCEPT !.pc = "unflattened", !.ok = r.ok, !.out = r.obj]
    /\ UNCHANGED <<xf, hooks, shared_state, dist_env, last, log, _ACTIVE_BACKEND, api, spmd>>

TreeNext == Flatten \/ Unflatten

TreeSpec == TreeInit /\ [][TreeNext]_vars

\* C1: for every object x built from tuples, lists, BaseModelOutputWithPast,
\* tensors and scalars that holds at least one tensor, unflatten of what
\* flatten(x) returned succeeds and gives x again: same container types,
\* nesting, child order, scalars and leaves.
C1_RoundTrip ==
    (tc.pc = "unflattened" /\ Len(tc.leaves) >= 1)
        => (tc.ok /\ tc.out = tc.obj)

\* A list holding a tensor and a tuple of another tensor has made the round
\* trip.
C1_Witness ==
    /\ tc.pc = "unflattened"
    /\ tc.obj = PyList(<<TensorB, PyTuple(<<TensorA>>)>>)
    /\ tc.leaves = <<TensorB, TensorA>>
    /\ tc.out = tc.obj

(***************************************************************************)
(* Transfer on its own: every rank of a tensor-parallel group of g holds   *)
(* one of the g equal shards of a full tensor along one axis, binds its    *)
(* functions from its shard and the full shape, collects, then disperses   *)
(* what it collected.                                                      *)
(***************************************************************************)
GroupSizes == {1, 2, 4, 8}

DimSizes == {1, 2, 8}

RECURSIVE ShapesOfRank(_)
ShapesOfRank(n) ==
    IF n = 0 THEN {<<>>}
    ELSE {Append(sh, d) : sh \in ShapesOfRank(n - 1), d \in DimSizes}

FullShapes == UNION {ShapesOfRank(n) : n \in 1..MaxRank}

\* The tensor of the given shape holding 1, 2, 3, ... in row-major order.
Iota(shape) ==
    PyTensor(shape, [k \in 1..Prod(shape, 1, Len(shape)) |-> k])

\* The environment of rank r of a tensor-parallel group of g.
EnvOfRank(g, r) == Env(TRUE, TRUE, g, r, TRUE, TRUE)

TransferInit ==
    /\ TreeIdle
    /\ HooksIdle
    /\ BackendIdle
    /\ SpmdIdle
    /\ \E sh \in FullShapes, g \in GroupSizes :
         \E d \in {i \in 1..Len(sh) : sh[i] % g = 0} :
            xf = [pc |-> "sharded", g |-> g, dim |-> d, full |-> Iota(sh),
                  shards |-> [r \in 1..g |-> TorchChunk(Iota(sh), g, d, r - 1)],
                  fns |-> <<>>, collected |-> <<>>, dispersed |-> <<>>]

\* Every rank binds its functions from its shard and the full shape.
TransferConcretize ==
    /\ xf.pc = "sharded"
    /\ xf' = [xf EXCEPT
                !.pc = "bound",
                !.fns = [r \in 1..xf.g |->
                            _concretize_functions(
                                Registered(HookFunction("layers.0", xf.full.shape,
                                                        "None", 0),
                                           "tensor", TRUE),
                                [offload_mode |-> "CPU", output_ptr |-> <<>>],
                                xf.shards[r]).hook]]
    /\ UNCHANGED <<tc, hooks, shared_state, dist_env, last, log, _ACTIVE_BACKEND, api, spmd>>

\* Every rank calls its collect function: one collective over the group.
TransferCollect ==
    /\ xf.pc = "bound"
    /\ xf' = [xf EXCEPT
                !.pc = "collected",
                !.collected = [r \in 1..xf.g |->
                                  CallTransfer(xf.fns[r]._collect, xf.shards[r],
                                               xf.shards, EnvOfRank(xf.g, r - 1))]]
    /\ UNCHANGED <<tc, hooks, shared_state, dist_env, last, log, _ACTIVE_BACKEND, api, spmd>>

\* Every rank calls its disperse function on what it collected.
TransferDisperse ==
    /\ xf.pc = "collected"
    /\ xf' = [xf EXCEPT
                !.pc = "dispersed",
                !.dispersed = [r \in 1..xf.g |->
                                  IF xf.collected[r].status # "ok"
                                  THEN xf.collected[r]
                                  ELSE CallTransfer(xf.fns[r]._disperse,
                                                    xf.collected[r].tensor,
                                                    <<xf.collected[r].tensor>>,
                                                    EnvOfRank(xf.g, r - 1))]]
    /\ UNCHANGED <<tc, hooks, shared_state, dist_env, last, log, _ACTIVE_BACKEND, api, spmd>>

TransferNext == TransferConcretize \/ TransferCollect \/ TransferDisperse

TransferSpec == TransferInit /\ [][TransferNext]_vars

\* C2: for a tensor-parallel group of 1, 2, 4 or 8 ranks holding the equal
\* shards of a full tensor along one axis, disperse of what collect returned
\* is, on every rank, a tensor with the shape and the values of that rank's
\* shard.
C2_TransferInverse ==
    xf.pc = "dispersed"
        => \A r \in 1..xf.g :
              /\ xf.dispersed[r].status = "ok"
              /\ xf.dispersed[r].tensor.shape = xf.shards[r].shape
              /\ xf.dispersed[r].tensor.data = xf.shards[r].data

\* Eight ranks holding the columns of a 2 x 8 tensor have collected the full
\* tensor and dispersed it again.
C2_Witness ==
    /\ xf.pc = "dispersed"
    /\ xf.g = 8
    /\ xf.full.shape = <<2, 8>>
    /\ xf.dim = 2
    /\ \A r \in 1..8 : xf.collected[r].tensor = xf.full
    /\ xf.dispersed[3].tensor.data = <<3, 11>>

\* The editing function of the latest invocation returned a tensor whose
\* shape is not the shape of the full tensor it was given.
EditChangedShape ==
    /\ last.run.edited # PyNone
    /\ last.run.edited.shape # last.run.collected.shape

SinkObjs == {TensorA, PyTuple(<<TensorB, TensorA>>)}

SinkInit ==
    HookInit({"forward"}, {0}, {"None", "raises"},
             {<<NoneDim, NoneDim>>, <<NoneDim, 4>>}, {TRUE}, ModuleNames,
             {EnvSingle, EnvTp2(1), EnvTp2NoPp(0), EnvTp2NoAct(0), EnvTorch},
             {"CPU"})

SinkNext ==
    \/ \E h \in HookIds : Call(h, SinkObjs, {TensorB}, NoKwargs)
    \/ \E m \in OffloadModes : SetOffloadMode(m)

SinkSpec == SinkInit /\ [][SinkNext]_vars

\* The guard of the offload functions: this process stores what it captures.
OffloadEnabled ==
    ~dist_env.torch_dist \/ (dist_env.act_dist /\ dist_env.in_pp)

\* The entries of the log for module name m, in call order.
LogOf(m) == SelectSeq(log, LAMBDA e : e.module_name = m)

\* The list output_ptr holds for m: no key reads as no entries.
SinkOf(output_ptr, m) == IF m \in DOMAIN output_ptr THEN output_ptr[m] ELSE <<>>

\* s is t or the beginning of t.
IsPrefix(s, t) == Len(s) <= Len(t) /\ SubSeq(t, 1, Len(s)) = s

\* After n invocations of hooks of module name m, all successful,
\* output_ptr[m] holds the n tensors they collected, in call order.
SinkHoldsCalls ==
    \A m \in ModuleNames :
        (OffloadEnabled /\ \A i \in 1..Len(LogOf(m)) : LogOf(m)[i].status = "ok")
            => /\ Len(SinkOf(shared_state.output_ptr, m)) = Len(LogOf(m))
               /\ \A i \in 1..Len(LogOf(m)) :
                     shared_state.output_ptr[m][i]
                        = Captured(LogOf(m)[i].offload, LogOf(m)[i].collected)

\* No step overwrites, drops or reorders an entry the sink holds.
SinkOnlyGrows ==
    \A m \in ModuleNames :
        IsPrefix(SinkOf(shared_state.output_ptr, m),
                 SinkOf(shared_state.output_ptr', m))

\* C4: on a process that offloads, after n invocations of hooks carrying one
\* module name, all successful, output_ptr[module_name] is the list of the n
\* tensors captured, the i-th by the i-th invocation, in CPU and in GPU mode;
\* and no step overwrites, drops or reorders an earlier entry.
C4_SinkAccumulates == [](SinkHoldsCalls) /\ [][SinkOnlyGrows]_vars

\* Two hooks of one module name were invoked in turn, one bound to the CPU
\* offload and one to the GPU offload, and the sink holds both tensors.
C4_Witness ==
    /\ Len(log) = 2
    /\ log[1].h = 1 /\ log[2].h = 2
    /\ log[1].module_name = log[2].module_name
    /\ log[1].status = "ok" /\ log[2].status = "ok"
    /\ log[1].offload.kind = "_offload_tensor_to_cpu"
    /\ log[2].offload.kind = "_offload_tensor_to_gpu"
    /\ log[1].collected # log[2].collected
    /\ Len(shared_state.output_ptr[log[1].module_name]) = 2

\* The four runtime functions, as a sequence, are all unset / all set.
AllUnset(fns) == \A i \in 1..Len(fns) : fns[i] = FnNone

AllSet(fns) == \A i \in 1..Len(fns) : fns[i] # FnNone

\* C5 as stated: the runtime functions of a hook change only from all four
\* unset to all four set, so at most once and never back, and every later
\* invocation finds and leaves the four functions bound then, whatever the
\* later tensor's shape and the later offload_mode.
C5_ConcretizedOnce ==
    [][\A h \in HookIds :
          RuntimeFns(hooks'[h]) # RuntimeFns(hooks[h])
              => (AllUnset(RuntimeFns(hooks[h])) /\ AllSet(RuntimeFns(hooks'[h])))]_vars

\* The latest invocation found some but not all of the runtime functions set.
FoundPartial ==
    /\ Len(last.run.found) = 4
    /\ ~AllUnset(last.run.found)
    /\ ~AllSet(last.run.found)

\* The steps of the latest invocation, as a set.
StepsRun == {last.run.trace[i] : i \in 1..Len(last.run.trace)}

\* C6 as stated: an invocation that finds some but not all of the four
\* runtime functions set fails before collect, offload, edit or disperse
\* runs.
C6_PartialIsFatal ==
    FoundPartial
        => /\ last.run.status # "ok"
           /\ StepsRun \cap {"collect", "offload", "edit", "disperse"} = {}

\* C7: a hook built without an editing function uses the identity editing
\* function, and every successful invocation of it returns an activation
\* tensor with the shape and the values of the input activation tensor.
C7_DefaultEditIsIdentity ==
    \A h \in HookIds :
        (last.h = h /\ hooks[h].editing_function = "default_editing_function")
            => /\ (AllSet(RuntimeFns(hooks[h]))
                     => hooks[h]._edit.kind = "default_editing_function")
               /\ (last.run.status = "ok"
                     => /\ "edit" \in StepsRun
                        /\ last.run.tensor.shape = last.run.start.shape
                        /\ last.run.tensor.data = last.run.start.data)

\* Rank 1 of a group of two ran the default editing function on the tensor
\* it collected from both ranks and got its own shard back.
C7_Witness ==
    /\ last.h = 1
    /\ hooks[1].editing_function = "default_editing_function"
    /\ last.run.status = "ok"
    /\ dist_env = EnvTp2(1)
    /\ last.run.start = TensorA
    /\ last.run.collected.shape = <<1, 4>>
    /\ last.run.edited = last.run.collected
    /\ last.run.tensor = TensorA

(***************************************************************************)
(* Dispatch: one hook of every type and every unpack_idx, invoked with the *)
(* positional arguments of its type, with and without keyword arguments.   *)
(***************************************************************************)
HookTypes == hook_type_to_impl_fn \cup {"None"}

UnpackIdxs == {0, 1, 2, 0 - 1, 0 - 2}

DispatchInit ==
    HookInit(HookTypes, UnpackIdxs, {"None", "add_one"},
             {<<NoneDim, NoneDim>>}, {TRUE}, {"layers.0"},
             {EnvSingle}, {"CPU"})

DispatchNext ==
    \/ Call(1, HookObjs, OtherArgs, KwargsSets)
    \/ SetOffloadMode("DISK")

DispatchSpec == DispatchInit /\ [][DispatchNext]_vars

\* The step is an invocation of a hook.
IsCallStep == <<last, log, hooks>>' # <<last, log, hooks>>

\* The argument holding the container a hook of the given type is to edit.
KindContainer(hook_type, args) ==
    CASE hook_type = "forward" -> args[3]
      [] hook_type = "tensor" -> args[1]
      [] OTHER -> args[2]

\* The number of tensors held by an object, at any depth of tuples, lists
\* and BaseModelOutputWithPast.
RECURSIVE NumTensors(_)
RECURSIVE NumTensorsIn(_)

NumTensors(obj) ==
    IF obj.type = "Tensor" THEN 1
    ELSE IF obj.type \in {"tuple", "list", "BaseModelOutputWithPast"}
    THEN NumTensorsIn(obj.items)
    ELSE 0

NumTensorsIn(objs) ==
    IF objs = <<>> THEN 0
    ELSE NumTensors(Head(objs)) + NumTensorsIn(Tail(objs))

\* Python indexing finds nothing at idx in a list of n elements.
OutOfRange(idx, n) == idx >= n \/ idx < 0 - n

\* The 1-based position Python's idx has in a list of n elements.
Position(idx, n) == IF idx < 0 THEN idx + n + 1 ELSE idx + 1

\* retval is container with its tensor at idx replaced by tensor.
EditedAt(container, idx, tensor, retval) ==
    LET before == _flatten(container)
        after == _flatten(retval)
    IN  /\ after.template = before.template
        /\ after.leaves =
              [before.leaves EXCEPT ![Position(idx, Len(before.leaves))] = tensor]

\* C8 as stated: an invocation of a hook of any of the five registered
\* types, with the positional arguments of that type, runs the pipeline on
\* that type's container, up to the editing function when the container
\* holds a tensor at unpack_idx.
C8_EveryKindReachesPipeline ==
    \A h \in HookIds :
        (/\ last.h = h
         /\ last.kwargs = <<>>
         /\ hooks[h]._hook_type \in hook_type_to_impl_fn)
            => /\ last.run.target = KindContainer(hooks[h]._hook_type, last.args)
               /\ (~OutOfRange(hooks[h].unpack_idx, NumTensors(last.run.target))
                     => "edit" \in StepsRun)

\* The latest invocation was of a forward, full-backward or tensor hook with
\* the positional arguments of its type and no keyword arguments.
C9_State ==
    \A h \in HookIds :
        (/\ last.h = h
         /\ last.kwargs = <<>>
         /\ hooks[h]._hook_type \in {"forward", "full_backward", "tensor"})
            => LET t == hooks[h]._hook_type
                   c == KindContainer(t, last.args)
               IN  /\ last.run.target = c
                   /\ (t = "tensor" /\ "edit" \in StepsRun
                         => last.run.module = PyNone)
                   /\ (t # "tensor" /\ "edit" \in StepsRun
                         => last.run.module = last.args[1])
                   /\ (last.run.status = "ok"
                         => /\ "edit" \in StepsRun
                            /\ last.run.tensor = last.run.edited
                            /\ IF t = "tensor"
                               THEN last.run.retval = last.run.tensor
                               ELSE EditedAt(c, hooks[h].unpack_idx,
                                             last.run.tensor, last.run.retval))

\* An invocation of a forward hook does what it does whatever its inputs
\* are, and an invocation of a full-backward hook whatever its grad_outputs.
C9_Step ==
    \A h \in HookIds :
        (/\ IsCallStep
         /\ last'.h = h
         /\ last'.kwargs = <<>>
         /\ hooks[h]._hook_type \in {"forward", "full_backward"})
            => \A y \in OtherArgs :
                  LET a == last'.args
                      args == IF hooks[h]._hook_type = "forward"
                              THEN <<a[1], y, a[3]>>
                              ELSE <<a[1], a[2], y>>
                      r == __call__(hooks[h], shared_state, dist_env, args, <<>>)
                  IN  /\ r = last'.run
                      /\ hooks'[h] = r.hook

\* C9: a forward hook runs the pipeline on outputs and returns outputs with
\* the tensor at unpack_idx replaced by the edited one, whatever inputs is;
\* a full-backward hook does the same with grad_inputs, whatever
\* grad_outputs is; a tensor hook runs the pipeline on grad, returns the
\* edited grad and hands the editing function no module.
C9_KindArguments == [](C9_State) /\ [][C9_Step]_vars

\* A forward hook given inputs that hold tensors edited the first tensor of
\* its outputs and returned the outputs with that tensor replaced.
C9_Witness ==
    /\ last.h = 1
    /\ hooks[1]._hook_type = "forward"
    /\ hooks[1].editing_function = "add_one"
    /\ last.args = <<PyModule, PyTuple(<<TensorA>>), PyTuple(<<TensorA, TensorB>>)>>
    /\ last.run.status = "ok"
    /\ last.run.retval = PyTuple(<<PyTensor(<<1, 2>>, <<2, 3>>), TensorB>>)

RECURSIVE ReplaceTensor(_, _, _)
RECURSIVE ReplaceTensorIn(_, _, _)

ReplaceTensor(obj, n, tensor) ==
    IF obj.type = "Tensor" THEN (IF n = 1 THEN tensor ELSE obj)
    ELSE IF obj.type \in {"tuple", "list", "BaseModelOutputWithPast"}
    THEN [obj EXCEPT !.items = ReplaceTensorIn(obj.items, n, tensor)]
    ELSE obj

ReplaceTensorIn(objs, n, tensor) ==
    IF objs = <<>> THEN <<>>
    ELSE <<ReplaceTensor(Head(objs), n, tensor)>>
         \o ReplaceTensorIn(Tail(objs), n - NumTensors(Head(objs)), tensor)

\* C11: for a container of k tensors and 0 <= unpack_idx < k, what a
\* successful invocation of a forward or full-backward hook returns is the
\* container it was given, same container types, nesting and scalars, with
\* every tensor but the one at unpack_idx in place and the tensor at
\* unpack_idx replaced by the tensor the pipeline ended with.
C11_RepackFrame ==
    \A h \in HookIds :
        (/\ last.h = h
         /\ last.kwargs = <<>>
         /\ hooks[h]._hook_type \in {"forward", "full_backward"}
         /\ last.run.status = "ok"
         /\ hooks[h].unpack_idx >= 0
         /\ hooks[h].unpack_idx
               < NumTensors(KindContainer(hooks[h]._hook_type, last.args)))
            => last.run.retval
                  = ReplaceTensor(KindContainer(hooks[h]._hook_type, last.args),
                                  hooks[h].unpack_idx + 1, last.run.tensor)

\* A forward hook with unpack_idx 1 and an editing function adding one
\* returned a BaseModelOutputWithPast whose doubly nested second tensor is
\* the edited one.
C11_Witness ==
    /\ last.h = 1
    /\ hooks[1]._hook_type = "forward"
    /\ hooks[1].unpack_idx = 1
    /\ last.run.status = "ok"
    /\ last.args[3]
          = BaseModelOutputWithPast(<<TensorA, PyTuple(<<PyTuple(<<TensorB>>)>>)>>)
    /\ last.run.retval
          = BaseModelOutputWithPast(
               <<TensorA,
                 PyTuple(<<PyTuple(<<PyTensor(<<2, 1>>, <<4, 5>>)>>)>>)>>)

(***************************************************************************)
(* The backend switch: initialize, destroy and query in any order, in a    *)
(* process with or without torch.distributed and accelerate.               *)
(***************************************************************************)
WorldSizes == {0, 1, 2, 4, 6, 8}

ParallelSizes == {1, 2, 3}

DistributedTypes == {"NO", "MULTI_GPU", "DEEPSPEED", "FSDP", "MEGATRON_LM"}

BackendInit ==
    /\ TreeIdle
    /\ TransferIdle
    /\ SpmdIdle
    /\ hooks = [h \in HookIds |-> HookFunction("layers.0", <<>>, "None", 0)]
    /\ shared_state = [offload_mode |-> "CPU", output_ptr |-> <<>>]
    /\ last = NoCall
    /\ log = <<>>
    /\ dist_env \in {EnvTorch, EnvNoTorch}
    /\ _ACTIVE_BACKEND = PyNone
    /\ api \in {[NoApiCall EXCEPT !.distributed_type = t] : t \in DistributedTypes}

\* What a call of distributed_api leaves behind: the global, the call, and
\* the latest initialize or destroy that returned.
ApiEffect(op, args, status, ret, active) ==
    /\ _ACTIVE_BACKEND' = active
    /\ dist_env' = [dist_env EXCEPT !.backend = (active # PyNone)]
    /\ api' = [api EXCEPT
                 !.op = op, !.args = args, !.status = status, !.ret = ret,
                 !.recent = IF status = "ok" /\ op # "is_initialized"
                            THEN op ELSE @,
                 !.recent_args = IF status = "ok" /\ op # "is_initialized"
                                 THEN args ELSE @]
    /\ UNCHANGED <<tc, xf, hooks, shared_state, last, log, spmd>>

Initialize ==
    \E world_size \in WorldSizes, tp \in ParallelSizes, pp \in ParallelSizes,
       dp \in ParallelSizes :
        LET r == initialize_distributed_backend(
                     _ACTIVE_BACKEND, dist_env.torch_dist, api.distributed_type,
                     <<world_size, tp, pp, dp>>)
        IN  ApiEffect("initialize", <<world_size, tp, pp, dp>>, r.status,
                      PyNone, r.active)

Destroy ==
    ApiEffect("destroy", <<>>, "ok", PyNone,
              destroy_distributed_backend(_ACTIVE_BACKEND))

IsInitialized ==
    ApiEffect("is_initialized", <<>>, "ok",
              distributed_backend_is_initialized(_ACTIVE_BACKEND),
              _ACTIVE_BACKEND)

BackendNext == Initialize \/ Destroy \/ IsInitialized

BackendSpec == BackendInit /\ [][BackendNext]_vars

\* The step is a call of initialize_distributed_backend.
IsInitializeStep ==
    /\ api'.op = "initialize"
    /\ <<api, _ACTIVE_BACKEND>>' # <<api, _ACTIVE_BACKEND>>

\* The sizes multiply to the world size.
Consistent(sizes) == sizes[1] = sizes[2] * sizes[3] * sizes[4]

\* C12: initialize_distributed_backend(world_size, tp, pp, dp) returns and
\* leaves an active backend over the mesh of these sizes if and only if
\* world_size = tp * pp * dp; for every other combination it raises
\* AssertionError, the same error at every call, whatever the backend
\* active before and the state of torch.distributed and accelerate.
C12_MeshValidity ==
    api.op = "initialize"
        => /\ (Consistent(api.args)
                 <=> (api.status = "ok" /\ _ACTIVE_BACKEND # PyNone))
           /\ (Consistent(api.args)
                 => _ACTIVE_BACKEND.device_mesh = api.args)
           /\ (~Consistent(api.args) => api.status = "AssertionError")

\* A world of 6 was split 2 x 3 x 1 and the backend is active.
C12_Witness ==
    /\ api.op = "initialize"
    /\ api.args = <<6, 2, 3, 1>>
    /\ api.status = "ok"
    /\ _ACTIVE_BACKEND.device_mesh = <<6, 2, 3, 1>>

\* The elements of the tensor holding 1, 2, 3, ... in row-major order whose
\* coordinate along the axis dim lies in the r-th (from 0) of g equal ranges,
\* in row-major order.
PieceOfIota(shape, g, dim, r) ==
    LET stride == Prod(shape, dim + 1, Len(shape))
        width == shape[dim] \div g
        InPiece(v) ==
            LET coord == ((v - 1) \div stride) % shape[dim]
            IN  r * width <= coord /\ coord < (r + 1) * width
    IN  SelectSeq([k \in 1..Prod(shape, 1, Len(shape)) |-> k], InPiece)

\* C13: when one axis of the shards differs from expected_shape, collect
\* returns on every rank of the group the full tensor, the concatenation of
\* the shards along that axis in rank order, and disperse of the full tensor
\* returns on rank r the r-th of the tp_size contiguous equal pieces along
\* that axis (the case expected_shape (4,512,5120), tp = 2, shards
\* (4,512,2560) at the scale of the model: (2,8), tp = 2, shards (2,4)).
C13_CollectAndDisperse ==
    (xf.pc \in {"collected", "dispersed"} /\ xf.g > 1)
        => \A r \in 1..xf.g :
              /\ xf.shards[r].shape
                    = [xf.full.shape EXCEPT ![xf.dim] = @ \div xf.g]
              /\ xf.shards[r].data
                    = PieceOfIota(xf.full.shape, xf.g, xf.dim, r - 1)
              /\ xf.collected[r].status = "ok"
              /\ xf.collected[r].tensor.shape = xf.full.shape
              /\ xf.collected[r].tensor.data
                    = [k \in 1..Len(xf.full.data) |-> k]
              /\ (xf.pc = "dispersed"
                    => /\ xf.dispersed[r].status = "ok"
                       /\ xf.dispersed[r].tensor.shape
                             = [xf.full.shape EXCEPT ![xf.dim] = @ \div xf.g]
                       /\ xf.dispersed[r].tensor.data
                             = PieceOfIota(xf.full.shape, xf.g, xf.dim, r - 1))

\* Two ranks holding columns [0:4) and [4:8) of a 2 x 8 tensor collected the
\* full tensor and got their columns back from disperse.
C13_Witness ==
    /\ xf.pc = "dispersed"
    /\ xf.g = 2
    /\ xf.full.shape = <<2, 8>>
    /\ xf.dim = 2
    /\ xf.shards[1].data = <<1, 2, 3, 4, 9, 10, 11, 12>>
    /\ xf.collected[2].tensor.shape = <<2, 8>>
    /\ xf.dispersed[1].tensor.data = <<1, 2, 3, 4, 9, 10, 11, 12>>
    /\ xf.dispersed[2].tensor.data = <<5, 6, 7, 8, 13, 14, 15, 16>>

\* The latest step was an invocation of hook h that failed with error
\* before any step of the pipeline, and changed neither the hooks nor the
\* sink.
FailedUntouched(h, error) ==
    /\ last'.run.status = error
    /\ last'.run.trace = <<>>
    /\ last'.run.retval = PyNone
    /\ hooks' = hooks
    /\ shared_state' = shared_state
    /\ log' = log

C15_KwargsRejected ==
    [][\A h \in HookIds :
          (/\ IsCallStep
           /\ last'.h = h
           /\ Len(last'.kwargs) > 0)
              => FailedUntouched(h, "NotImplementedError")]_vars

\* A forward hook that had captured a tensor was invoked with a keyword
\* argument and failed, its functions and the sink as before.
C15_Witness ==
    /\ last.h = 1
    /\ hooks[1]._hook_type = "forward"
    /\ last.kwargs = <<"attention_mask">>
    /\ last.run.status = "NotImplementedError"
    /\ AllSet(RuntimeFns(hooks[1]))
    /\ Len(SinkOf(shared_state.output_ptr, "layers.0")) = 1

(***************************************************************************)
(* Node equality: the templates of two objects are compared with ==.       *)
(***************************************************************************)
\* Every object of at most two nodes, and some that differ from them in one
\* scalar, one tensor or the order of their tensors.
EqObjs ==
    ObjsOfSize(1) \cup ObjsOfSize(2)
    \cup {PyInt(8), PyTuple(<<PyInt(8)>>),
          PyTuple(<<TensorA, PyList(<<TensorB, PyInt(7)>>)>>),
          PyTuple(<<TensorB, PyList(<<TensorA, PyInt(7)>>)>>),
          PyTuple(<<TensorB, PyList(<<TensorA, PyInt(8)>>)>>),
          PyTuple(<<TensorB, PyTuple(<<TensorA, PyInt(7)>>)>>)}

EqInit ==
    /\ HooksIdle
    /\ TransferIdle
    /\ BackendIdle
    /\ SpmdIdle
    /\ tc \in {[pc |-> "pair", obj |-> a, template |-> PyNone, leaves |-> <<>>,
             ok |-> TRUE, out |-> PyNone, other |-> b,
             other_template |-> PyNone, eq |-> FALSE, given |-> <<>>] : a \in EqObjs, b \in EqObjs}

FlattenPair ==
    /\ tc.pc = "pair"
    /\ tc' = [tc EXCEPT !.pc = "templates",
                        !.template = _flatten(tc.obj).template,
                        !.leaves = _flatten(tc.obj).leaves,
                        !.other_template = _flatten(tc.other).template]
    /\ UNCHANGED <<xf, hooks, shared_state, dist_env, last, log, _ACTIVE_BACKEND, api, spmd>>

Compare ==
    /\ tc.pc = "templates"
    /\ tc' = [tc EXCEPT !.pc = "compared",
                        !.eq = NodeEq(tc.template, tc.other_template)]
    /\ UNCHANGED <<xf, hooks, shared_state, dist_env, last, log, _ACTIVE_BACKEND, api, spmd>>

EqNext == FlattenPair \/ Compare

EqSpec == EqInit /\ [][EqNext]_vars

\* Two objects have the same container types, the same number of children
\* in every container, equal scalars and a tensor wherever the other has
\* one.
RECURSIVE SameStructure(_, _)
SameStructure(a, b) ==
    IF a.type = "Tensor" \/ b.type = "Tensor"
    THEN a.type = b.type
    ELSE IF a.type \in {"tuple", "list", "BaseModelOutputWithPast"}
    THEN /\ b.type = a.type
         /\ Len(b.items) = Len(a.items)
         /\ \A i \in 1..Len(a.items) : SameStructure(a.items[i], b.items[i])
    ELSE a = b

\* C16 as stated: two node trees compare equal if and only if they have the
\* same node kind at every position, the same number of children at every
\* internal node and equal scalars, two leaf nodes being equal whatever
\* shapes they record, at the root as well as nested.
C16_StructuralEquality ==
    tc.pc = "compared" => (tc.eq <=> SameStructure(tc.obj, tc.other))

\* The tensors of an object, in depth-first, left-to-right order.
RECURSIVE TensorsOf(_)
RECURSIVE TensorsIn(_)

TensorsOf(obj) ==
    IF obj.type = "Tensor" THEN <<obj>>
    ELSE IF obj.type \in {"tuple", "list", "BaseModelOutputWithPast"}
    THEN TensorsIn(obj.items)
    ELSE <<>>

TensorsIn(objs) ==
    IF objs = <<>> THEN <<>>
    ELSE TensorsOf(Head(objs)) \o TensorsIn(Tail(objs))

\* The number of leaf nodes of a template.
RECURSIVE NumLeafNodes(_)
RECURSIVE NumLeafNodesIn(_)

NumLeafNodes(node) ==
    IF node.type = "TensorNode" THEN 1
    ELSE IF node.type \in {"TupleNode", "ListNode", "BaseModelOutputWithPastNode"}
    THEN NumLeafNodesIn(node.items)
    ELSE 0

NumLeafNodesIn(nodes) ==
    IF nodes = <<>> THEN 0
    ELSE NumLeafNodes(Head(nodes)) + NumLeafNodesIn(Tail(nodes))

\* node is the template of obj: a TensorNode holding the shape and nothing
\* else for a tensor, the node of its type over the templates of its
\* children for a container, the value itself for anything else.
RECURSIVE IsTemplateOf(_, _)
IsTemplateOf(node, obj) ==
    IF obj.type = "Tensor"
    THEN /\ node.type = "TensorNode"
         /\ node.shape = obj.shape
         /\ node.data = <<>>
         /\ node.items = <<>>
         /\ node.device = ""
    ELSE IF obj.type \in {"tuple", "list", "BaseModelOutputWithPast"}
    THEN /\ node.type = (CASE obj.type = "tuple" -> "TupleNode"
                           [] obj.type = "list" -> "ListNode"
                           [] OTHER -> "BaseModelOutputWithPastNode")
         /\ Len(node.items) = Len(obj.items)
         /\ \A i \in 1..Len(obj.items) : IsTemplateOf(node.items[i], obj.items[i])
    ELSE node = obj

\* C17: the leaves flatten(obj) returns are exactly the tensors of obj in
\* depth-first, left-to-right order, one for each LeafNode of the template;
\* a LeafNode holds the shape of its tensor and nothing else, and a value
\* that is neither a tensor nor a tuple, list or BaseModelOutputWithPast is
\* in the template as itself and adds no leaf.
C17_FlattenLeaves ==
    tc.pc \in {"flattened", "unflattened"}
        => /\ tc.leaves = TensorsOf(tc.obj)
           /\ NumLeafNodes(tc.template) = Len(tc.leaves)
           /\ IsTemplateOf(tc.template, tc.obj)

\* A list of a scalar and two tensors was flattened into its two tensors,
\* in order, and a template holding the scalar and their shapes.
C17_Witness ==
    /\ tc.pc = "flattened"
    /\ tc.obj = PyList(<<PyInt(7), TensorB, TensorA>>)
    /\ tc.leaves = <<TensorB, TensorA>>
    /\ tc.template
          = InternalNode("ListNode",
                <<PyInt(7), LeafNode("TensorNode", <<2, 1>>),
                  LeafNode("TensorNode", <<1, 2>>)>>)

\* The steps of _template_handle_tensor in the order of the source.
PipelineOrder == <<"collect", "offload", "edit", "disperse", "shape_check">>

IsPipelineStep(step) == step \in {PipelineOrder[i] : i \in 1..Len(PipelineOrder)}

\* C18: the steps of an invocation run in the order collect, offload, edit,
\* disperse, shape check, each at most once and none after a step that was
\* skipped; the tensor the invocation appended to the sink has the shape and
\* the values of the collected tensor, as it was before the editing function
\* ran; and what the editing function returned is its result on the
\* collected tensor, not on the local shard.
C18_StepOrder ==
    \A h \in HookIds :
        last.h = h
            => /\ IsPrefix(SelectSeq(last.run.trace, IsPipelineStep), PipelineOrder)
               /\ ("edit" \in StepsRun
                     => LET sink == SinkOf(shared_state.output_ptr,
                                           hooks[h].module_name)
                            c == CallEdit(last.run.hook._edit.kind,
                                          last.run.module, last.run.collected)
                        IN  /\ Len(sink) >= 1
                            /\ sink[Len(sink)].shape = last.run.collected.shape
                            /\ sink[Len(sink)].data = last.run.collected.data
                            /\ (c.status = "ok" => last.run.edited = c.tensor)
                            /\ (c.status # "ok" => last.run.status = c.status))

\* Rank 1 of a group of two collected <<11, 12, 1, 2>> from its shard
\* <<1, 2>>, stored it, handed it to an editing function adding one and got
\* its own half of the result back.
C18_Witness ==
    /\ last.h = 1
    /\ dist_env = EnvTp2(1)
    /\ last.run.status = "ok"
    /\ last.run.start = TensorA
    /\ last.run.collected.data = <<11, 12, 1, 2>>
    /\ SinkOf(shared_state.output_ptr, "layers.0")[1].data = <<11, 12, 1, 2>>
    /\ last.run.edited.data = <<12, 13, 2, 3>>
    /\ last.run.tensor.data = <<2, 3>>
    /\ last.run.trace[Len(last.run.trace)] \in {"shape_check", "repack"}

\* C19: an invocation appends at most one tensor to the sink, to the list
\* of its own module name; one that runs its offload function appends one
\* exactly when torch.distributed is not initialized, or activation parallel
\* is initialized and the rank is in the pipeline-parallel group; under an
\* initialized torch.distributed, a rank outside the pipeline-parallel
\* group, or one without activation parallel, leaves the sink unchanged.
C19_OffloadGuard ==
    [][\A h \in HookIds :
          (IsCallStep /\ last'.h = h)
              => LET own == hooks[h].module_name
                     before == SinkOf(shared_state.output_ptr, own)
                     after == SinkOf(shared_state'.output_ptr, own)
                     guard == \/ ~dist_env.torch_dist
                              \/ (dist_env.act_dist /\ dist_env.in_pp)
                     offloaded ==
                         "offload" \in {last'.run.trace[i] :
                                           i \in 1..Len(last'.run.trace)}
                 IN  /\ IsPrefix(before, after)
                     /\ Len(after) <= Len(before) + 1
                     /\ \A m \in ModuleNames \ {own} :
                           SinkOf(shared_state'.output_ptr, m)
                              = SinkOf(shared_state.output_ptr, m)
                     /\ (offloaded
                           => (Len(after) = Len(before) + 1 <=> guard))
                     /\ (~guard => shared_state'.output_ptr
                                      = shared_state.output_ptr)]_vars

\* A rank of a group of two outside the pipeline-parallel group ran an
\* invocation to its end, offload function included, and its sink is empty.
C19_Witness ==
    /\ dist_env = EnvTp2NoPp(0)
    /\ last.h = 1
    /\ last.run.status = "ok"
    /\ "offload" \in StepsRun
    /\ Len(log) = 1
    /\ shared_state.output_ptr = <<>>

\* The backend is active exactly when the latest initialize or destroy that
\* returned was an initialize, and is then the backend of that initialize;
\* distributed_backend_is_initialized() returns just that.
BackendFollowsCalls ==
    /\ (_ACTIVE_BACKEND # PyNone <=> api.recent = "initialize")
    /\ (_ACTIVE_BACKEND # PyNone
          => _ACTIVE_BACKEND.device_mesh = api.recent_args)
    /\ (api.op = "is_initialized"
          => /\ api.status = "ok"
             /\ api.ret = (api.recent = "initialize"))

\* An initialize that raises leaves the global as it was; a destroy returns
\* and leaves no backend, whether there was one or not; a query changes
\* nothing.
BackendStep ==
    /\ (api'.op = "initialize" /\ api'.status # "ok"
          => _ACTIVE_BACKEND' = _ACTIVE_BACKEND)
    /\ (api'.op = "initialize" /\ api'.status = "ok"
          => _ACTIVE_BACKEND'.device_mesh = api'.args)
    /\ (api'.op = "destroy"
          => api'.status = "ok" /\ _ACTIVE_BACKEND' = PyNone)
    /\ (api'.op = "is_initialized" => _ACTIVE_BACKEND' = _ACTIVE_BACKEND)

\* C20: over every sequence of initialize_distributed_backend and
\* destroy_distributed_backend calls, distributed_backend_is_initialized()
\* returns true exactly when the latest of them that returned was an
\* initialize; an initialize that fails leaves the active backend, or its
\* absence, unchanged; an initialize over an active backend replaces it; and
\* destroy returns without error whether or not a backend is active.
C20_BackendLifecycle == [](BackendFollowsCalls) /\ [][BackendStep]_vars

\* After a backend over 6 = 2 x 3 x 1 was replaced by one over 4 = 2 x 2 x 1,
\* an inconsistent initialize failed and the second backend is still active.
C20_Witness ==
    /\ api.op = "initialize"
    /\ api.args = <<6, 2, 2, 1>>
    /\ api.status = "AssertionError"
    /\ api.recent = "initialize"
    /\ api.recent_args = <<4, 2, 2, 1>>
    /\ _ACTIVE_BACKEND.device_mesh = <<4, 2, 2, 1>>

(***************************************************************************)
(* An SPMD run: one process per rank of the mesh, every process invoking   *)
(* the same tensor hook on its own shard, MaxCalls times.  collect of a    *)
(* sharded tensor is an all-gather over the tensor-parallel group of the   *)
(* rank: a rank hands its shard to the collective when it calls collect    *)
(* and the call returns once every rank of the group has handed over its   *)
(* shard of the same round.  disperse slices the local tensor.  An         *)
(* invocation that raises ends its process: nothing catches the error.     *)
(***************************************************************************)
\* The mesh: four ranks, tensor-parallel groups of two.
SpmdMesh == [world_size |-> 4, tp_size |-> 2]

SpmdRanks == 0..(SpmdMesh.world_size - 1)

\* A group waiting for every rank of the world.
TpGroupOfWorld(k) == SpmdRanks

\* The ranks of the tensor-parallel group of rank k.
TpGroupOf(k) ==
    {m \in SpmdRanks : m \div SpmdMesh.tp_size = k \div SpmdMesh.tp_size}

\* The tensor-parallel group the fairness of the run is about.
FirstGroup == {k \in SpmdRanks : k < SpmdMesh.tp_size}

SpmdEnv(k) == EnvOfRank(SpmdMesh.tp_size, k % SpmdMesh.tp_size)

\* The full tensor every group holds the shards of, along the first axis.
SpmdFull == Iota(<<2, 2>>)

SpmdShard(k) ==
    TorchChunk(SpmdFull, SpmdMesh.tp_size, 1, k % SpmdMesh.tp_size)

\* Whether calling fn is a collective over more than the local process.
IsCollective(fn, env) == fn.kind = "all_gather" /\ TpSize(env) > 1

\* The rounds of the collective a process has handed a shard to.
Round(posted, k) == Len(posted[k])

\* An all-gather returns once every rank of the group has handed over its
\* shard of the round.
CollectiveReady(posted, members, round) ==
    \A m \in members : Len(posted[m]) >= round

\* The shards of a round, in rank order.
GatheredShards(posted, k, round) ==
    [p \in 1..SpmdMesh.tp_size |->
        posted[(k \div SpmdMesh.tp_size) * SpmdMesh.tp_size + p - 1][round]]

SpmdInit ==
    /\ TreeIdle
    /\ TransferIdle
    /\ HooksIdle
    /\ BackendIdle
    /\ \E expected \in {SpmdFull.shape, <<NoneDim, NoneDim>>},
          edit \in {"None", "raises"},
          detached \in {{}, {1}, {3}} :
         spmd = [ranks |-> [k \in SpmdRanks |->
                    [pc |-> "ready", calls |-> 0,
                     hook |-> Registered(HookFunction("layers.0", expected,
                                                      edit, 0),
                                         "tensor", k \notin detached),
                     output_ptr |-> <<>>,
                     run |-> NoCall.run]],
                 posted |-> [k \in SpmdRanks |-> <<>>]]

SpmdShared(k) ==
    [offload_mode |-> "CPU", output_ptr |-> spmd.ranks[k].output_ptr]

\* What a step of rank k leaves: the process goes on at pc when the run r
\* is not raised, and ends otherwise.
SpmdEffect(k, r, pc, calls, posted) ==
    /\ spmd' = [ranks |-> [spmd.ranks EXCEPT
                    ![k] = [pc |-> IF r.status = "ok" THEN pc ELSE "raised",
                            calls |-> calls,
                            hook |-> r.hook,
                            output_ptr |-> r.output_ptr,
                            run |-> r]],
                posted |-> IF r.status = "ok" THEN posted ELSE spmd.posted]
    /\ UNCHANGED <<tc, xf, hooks, shared_state, dist_env, last, log,
                   _ACTIVE_BACKEND, api>>

\* Rank k is invoked: _tensor_hook_impl and _template_handle_tensor up to
\* the call of collect, which hands the shard of the rank to the group.
SpmdInvoke(k) ==
    LET me == spmd.ranks[k]
        tensor == SpmdShard(k)
    IN  /\ me.pc = "ready"
        /\ me.calls < MaxCalls
        /\ \E r \in {ConcretizeStep(
                         [Run(me.hook, me.output_ptr) EXCEPT
                             !.target = tensor, !.start = tensor,
                             !.tensor = tensor,
                             !.found = RuntimeFns(me.hook)],
                         SpmdShared(k), tensor)} :
              SpmdEffect(k, r, "in_collect", me.calls,
                  IF IsCollective(r.hook._collect, SpmdEnv(k))
                  THEN [spmd.posted EXCEPT ![k] = Append(@, tensor)]
                  ELSE spmd.posted)

\* collect returns on rank k; offload and the editing function run, and
\* disperse is called.
SpmdCollectReturns(k) ==
    LET me == spmd.ranks[k]
        collective == IsCollective(me.run.hook._collect, SpmdEnv(k))
        round == Round(spmd.posted, k)
        shards == IF collective THEN GatheredShards(spmd.posted, k, round)
                  ELSE <<me.run.tensor>>
    IN  /\ me.pc = "in_collect"
        /\ collective => CollectiveReady(spmd.posted, TpGroupOf(k), round)
        /\ \E collected \in {CollectStepOn(me.run, shards, SpmdEnv(k))} :
           \E offloaded \in {OffloadStep(collected, SpmdEnv(k))} :
           \E edited \in {EditStep(offloaded, PyNone)} :
              SpmdEffect(k, edited, "in_disperse", me.calls, spmd.posted)

\* disperse returns on rank k; the shape is checked and the invocation
\* returns.
SpmdDisperseReturns(k) ==
    LET me == spmd.ranks[k]
    IN  /\ me.pc = "in_disperse"
        /\ \E dispersed \in {DisperseStep(me.run, SpmdEnv(k))} :
           \E checked \in {ShapeCheckStep(dispersed, me.run.start.shape)} :
              SpmdEffect(k, checked, "ready", me.calls + 1, spmd.posted)

SpmdStep(k) == SpmdInvoke(k) \/ SpmdCollectReturns(k) \/ SpmdDisperseReturns(k)

SpmdNext == \E k \in SpmdRanks : SpmdStep(k)

SpmdSpec == SpmdInit /\ [][SpmdNext]_vars

\* The processes of the first tensor-parallel group run whenever they can;
\* nothing is assumed of the processes outside it.
SpmdFairSpec == SpmdSpec /\ \A k \in FirstGroup : WF_vars(SpmdStep(k))

\* Every rank of the group of k has its shared state, so none of them
\* raises before it calls collect.
GroupInvokes(k) == \A m \in TpGroupOf(k) : spmd.ranks[m].hook._shared_state

\* Rank k waits in an all-gather that a rank of its group, whose invocation
\* raised, never hands its shard to.
Stuck(k) ==
    /\ k \in DOMAIN spmd.ranks
    /\ spmd.ranks[k].pc = "in_collect"
    /\ IsCollective(spmd.ranks[k].run.hook._collect, SpmdEnv(k))
    /\ \E m \in TpGroupOf(k) :
          /\ spmd.ranks[m].pc = "raised"
          /\ Round(spmd.posted, m) < Round(spmd.posted, k)

\* Rank k waits for a collect or a disperse of its to return, every rank of
\* its group invoking the hook.
Waiting(k) ==
    \/ spmd.ranks[k].pc = "in_collect" /\ GroupInvokes(k)
    \/ spmd.ranks[k].pc = "in_disperse"

\* Again and again no rank of the first group waits: whatever a rank waits
\* for returns.
CollectivesReturn == []<>(\A k \in FirstGroup : ~Waiting(k))

StuckStays == \A k \in SpmdRanks : Stuck(k) => Stuck(k)'

\* C21: when every rank of a tensor-parallel group invokes the hook, each
\* collect and each disperse of a rank of the group returns, whatever the
\* ranks outside the group do (they may never take a step); a rank waiting
\* in the all-gather for a rank of its group whose invocation raised before
\* calling collect waits in every later state.
C21_Collectives == CollectivesReturn /\ [][StuckStays]_vars

\* The first group has finished all its invocations, each with a collect
\* and a disperse, while rank 2 waits for rank 3, which raised when it bound
\* its functions.
C21_Witness ==
    /\ \A k \in FirstGroup :
          /\ spmd.ranks[k].calls = MaxCalls
          /\ spmd.ranks[k].run.trace =
                <<"collect", "offload", "edit", "disperse", "shape_check">>
          /\ spmd.ranks[k].run.collected = SpmdFull
          /\ spmd.ranks[k].run.retval = SpmdShard(k)
    /\ Stuck(2)
    /\ spmd.ranks[3].run.status = "AttributeError"

\* C22 as stated: in every reachable state, also after an invocation that
\* raised while it bound the functions for the first time, the four runtime
\* functions of every hook are all unset or all set.
C22_AllOrNothing ==
    \A h \in HookIds :
        AllUnset(RuntimeFns(hooks[h])) \/ AllSet(RuntimeFns(hooks[h]))

\* The sink holds, for every module name, one entry for each invocation that
\* ran its offload step, returned or raised.
SinkCountsOffloads ==
    \A m \in ModuleNames :
        OffloadEnabled
            => Len(SinkOf(shared_state.output_ptr, m)) = Len(LogOf(m))

\* The invocation of this step raised after its offload step.
RaisedAfterOffload ==
    /\ IsCallStep
    /\ "offload" \in {last'.run.trace[i] : i \in 1..Len(last'.run.trace)}
    /\ last'.run.status \in {"EditError", "ShapeMismatch"}

\* The tensor the invocation captured is one more entry of its module name,
\* after the entries that were there.
KeepsCaptured ==
    LET m == hooks[last'.h].module_name
    IN  SinkOf(shared_state'.output_ptr, m)
            = Append(SinkOf(shared_state.output_ptr, m),
                     Captured(last'.run.hook._offload, last'.run.collected))

\* C23: on a process that offloads, an invocation whose editing function
\* raises or whose result fails the shape check leaves the tensor it
\* captured as exactly one more entry of output_ptr[module_name], and the
\* number of entries under a module name is the number of invocations that
\* ran the offload step, not the number that returned.
C23_NoRollback ==
    [](SinkCountsOffloads)
        /\ [][(RaisedAfterOffload /\ OffloadEnabled) => KeepsCaptured]_vars

\* Two invocations of a hook whose editing function keeps the first element
\* of the last axis: the one on a (1, 2) tensor failed the shape check, the
\* one on a (2, 1) tensor returned, and the sink holds both tensors.
C23_Witness ==
    /\ Len(log) = 2
    /\ log[1].status = "ShapeMismatch"
    /\ log[2].status = "ok"
    /\ hooks[1]._edit.kind = "first_of_last_dim"
    /\ Len(SinkOf(shared_state.output_ptr, "layers.0")) = 2
    /\ shared_state.output_ptr["layers.0"][1].shape = <<1, 2>>

\* The step leaves the lists of the module names other than m as they were,
\* and creates none.
OtherSinksKept(m) ==
    \A n \in ModuleNames \ {m} :
        /\ (n \in DOMAIN shared_state'.output_ptr) = (n \in DOMAIN shared_state.output_ptr)
        /\ SinkOf(shared_state'.output_ptr, n) = SinkOf(shared_state.output_ptr, n)

\* The step leaves the hooks other than h as they were, runtime functions
\* included.
OtherHooksKept(h) == \A g \in HookIds \ {h} : hooks'[g] = hooks[g]

\* C24: whatever invocations of the hooks sharing one output_ptr came
\* before, an invocation of a hook with module name m changes no list of
\* output_ptr but the one of m, and no runtime function or other attribute
\* of any other hook; a step that is no invocation changes none at all.
C24_Frame ==
    [][IF IsCallStep
       THEN OtherSinksKept(hooks[last'.h].module_name) /\ OtherHooksKept(last'.h)
       ELSE hooks' = hooks /\ shared_state'.output_ptr = shared_state.output_ptr]_vars

\* Hook 1 of layers.0 and hook 2 of layers.1 were invoked in turn: each name
\* has the one tensor its hook captured, and each hook its own functions.
C24_Witness ==
    /\ Len(log) = 2
    /\ log[1].h = 1 /\ log[2].h = 2
    /\ log[1].module_name # log[2].module_name
    /\ log[1].collected # log[2].collected
    /\ \A i \in 1..2 :
          SinkOf(shared_state.output_ptr, log[i].module_name)
              = <<Captured(log[i].offload, log[i].collected)>>
    /\ hooks[1]._offload # hooks[2]._offload
    /\ AllSet(RuntimeFns(hooks[1])) /\ AllSet(RuntimeFns(hooks[2]))

(***************************************************************************)
(* Traversal of objects that hold instances of subclasses of the           *)
(* registered types and unregistered containers, and unflatten handed a    *)
(* list of leaves other than the one flatten returned.                     *)
(***************************************************************************)
\* Values of no registered type that hold or are tensors.
Opaque ==
    {PyParameter(<<1, 2>>, <<5, 6>>), PyNamedTuple(<<TensorA>>),
     PyDict(<<TensorB>>)}

CodecAtoms == {TensorA, TensorB, PyInt(7)} \cup Opaque

CodecForests == UNION {[1..n -> CodecAtoms] : n \in 1..(MaxNodes - 1)}

CodecObjs ==
    CodecAtoms
        \cup {PyTuple(f) : f \in CodecForests}
        \cup {PyList(f) : f \in CodecForests}
        \cup {PyTuple(<<a, PyList(<<b>>)>>) : a \in CodecAtoms, b \in CodecAtoms}
        \cup {BaseModelOutputWithPast(<<a, b>>) : a \in CodecAtoms, b \in CodecAtoms}

\* The lists of leaves handed to unflatten.
GivenLeaves == UNION {[1..n -> {TensorA, TensorB}] : n \in 0..(MaxNodes - 1)}

CodecInit ==
    /\ HooksIdle
    /\ BackendIdle
    /\ SpmdIdle
    /\ TransferIdle
    /\ tc \in {[pc |-> "start", obj |-> o, template |-> PyNone, leaves |-> <<>>,
             ok |-> TRUE, out |-> PyNone, other |-> PyNone,
             other_template |-> PyNone, eq |-> FALSE, given |-> <<>>] :
                o \in CodecObjs}

\* _unflatten(template, given) for a list of leaves of the caller's.
UnflattenGiven ==
    /\ tc.pc = "flattened"
    /\ \E given \in GivenLeaves :
          LET r == _unflatten(tc.template, given)
          IN  tc' = [tc EXCEPT !.pc = "unflattened_given", !.given = given,
                               !.ok = r.ok, !.out = r.obj]
    /\ UNCHANGED <<xf, hooks, shared_state, dist_env, last, log, _ACTIVE_BACKEND, api, spmd>>

CodecNext == Flatten \/ Unflatten \/ UnflattenGiven

CodecSpec == CodecInit /\ [][CodecNext]_vars

\* obj has the containers and the scalars of the template node, in the same
\* places, and a tensor in the place of every LeafNode.
RECURSIVE FillsTemplate(_, _)
FillsTemplate(node, obj) ==
    IF node.type = "TensorNode"
    THEN obj.type = "Tensor"
    ELSE IF node.type \in {"TupleNode", "ListNode", "BaseModelOutputWithPastNode"}
    THEN /\ obj.type = (CASE node.type = "TupleNode" -> "tuple"
                          [] node.type = "ListNode" -> "list"
                          [] OTHER -> "BaseModelOutputWithPast")
         /\ Len(obj.items) = Len(node.items)
         /\ \A i \in 1..Len(node.items) : FillsTemplate(node.items[i], obj.items[i])
    ELSE obj = node

\* C25: unflatten handed fewer leaves than the template has LeafNodes raises
\* and returns no object; handed as many or more, it returns the object of
\* the template with the first leaves, in order, in the places of the
\* LeafNodes, the leaves beyond them used nowhere.
C25_LeafCount ==
    tc.pc = "unflattened_given"
        => IF Len(tc.given) < NumLeafNodes(tc.template)
           THEN ~tc.ok /\ tc.out = PyNone
           ELSE /\ tc.ok
                /\ FillsTemplate(tc.template, tc.out)
                /\ TensorsOf(tc.out)
                      = SubSeq(tc.given, 1, NumLeafNodes(tc.template))

\* The template of a tuple of a tensor and a list of a tensor was handed
\* three leaves: the first two are in the object, the third is nowhere.
C25_Witness ==
    /\ tc.pc = "unflattened_given"
    /\ tc.obj = PyTuple(<<TensorA, PyList(<<TensorA>>)>>)
    /\ tc.given = <<TensorB, TensorA, TensorB>>
    /\ tc.ok
    /\ tc.out = PyTuple(<<TensorB, PyList(<<TensorA>>)>>)

\* The values of obj that flatten meets and that are of no registered type
\* while their class derives from a registered type or they are a dict.
RECURSIVE OpaqueOf(_)
RECURSIVE OpaqueIn(_)

OpaqueOf(obj) ==
    IF obj.type \in {"tuple", "list", "BaseModelOutputWithPast"}
    THEN OpaqueIn(obj.items)
    ELSE IF obj.type = "dict" \/ obj.type \in DOMAIN PyBases
    THEN <<obj>>
    ELSE <<>>

OpaqueIn(objs) ==
    IF objs = <<>> THEN <<>>
    ELSE OpaqueOf(Head(objs)) \o OpaqueIn(Tail(objs))

\* The nodes of a template that are neither LeafNodes nor InternalNodes.
RECURSIVE ScalarNodes(_)
RECURSIVE ScalarNodesIn(_)

ScalarNodes(node) ==
    IF node.type = "TensorNode" THEN <<>>
    ELSE IF node.type \in {"TupleNode", "ListNode", "BaseModelOutputWithPastNode"}
    THEN ScalarNodesIn(node.items)
    ELSE <<node>>

ScalarNodesIn(nodes) ==
    IF nodes = <<>> THEN <<>>
    ELSE ScalarNodes(Head(nodes)) \o ScalarNodesIn(Tail(nodes))

\* C27: an instance of a subclass of Tensor or of tuple, and a dict, is in
\* the template as itself, in its place, with what it holds; flatten returns
\* as leaves the tensors of exact type Tensor it reaches through tuples,
\* lists and BaseModelOutputWithPast only, so none for such a value or from
\* inside it; and unflatten of what flatten returned has every such value
\* back in its place.
C27_ExactType ==
    (tc.pc \in {"flattened", "unflattened"} /\ OpaqueOf(tc.obj) # <<>>)
        => /\ IsTemplateOf(tc.template, tc.obj)
           /\ \A i \in 1..Len(OpaqueOf(tc.obj)) :
                 \E j \in 1..Len(ScalarNodes(tc.template)) :
                    ScalarNodes(tc.template)[j] = OpaqueOf(tc.obj)[i]
           /\ tc.leaves = TensorsOf(tc.obj)
           /\ NumLeafNodes(tc.template) = Len(tc.leaves)
           /\ \A i \in 1..Len(tc.leaves) : tc.leaves[i].type = "Tensor"
           /\ tc.pc = "unflattened" => (tc.ok /\ tc.out = tc.obj)

\* A tuple of a dict holding a tensor, a named tuple holding a tensor and a
\* tensor made the round trip with the one tensor as its only leaf.
C27_Witness ==
    /\ tc.pc = "unflattened"
    /\ tc.obj = PyTuple(<<PyDict(<<TensorB>>), PyNamedTuple(<<TensorA>>), TensorB>>)
    /\ tc.leaves = <<TensorB>>
    /\ tc.template.items[1] = PyDict(<<TensorB>>)
    /\ tc.template.items[2] = PyNamedTuple(<<TensorA>>)
    /\ tc.out = tc.obj

\* The latest invocation was of a forward or full-backward hook with a
\* negative unpack_idx on a container of at least -unpack_idx tensors, and
\* came to repack what the pipeline returned.
RepackedFromEnd(h) ==
    /\ last.h = h
    /\ last.kwargs = <<>>
    /\ hooks[h]._hook_type \in {"forward", "full_backward"}
    /\ hooks[h].unpack_idx < 0
    /\ 0 - NumTensors(KindContainer(hooks[h]._hook_type, last.args))
          <= hooks[h].unpack_idx
    /\ "repack" \in StepsRun

\* C26: for a container of k tensors and -k <= unpack_idx <= -1 the tensor
\* handed to the pipeline is the one at position k + unpack_idx, from 0, and
\* the invocation returns the container with the tensor the pipeline ended
\* with at that position and everything else in place; for unpack_idx = -1
\* too, where the leaves kept for the right side are all the leaves.
C26_NegativeIndex ==
    \A h \in HookIds :
        RepackedFromEnd(h)
            => LET container == KindContainer(hooks[h]._hook_type, last.args)
                   k == NumTensors(container)
                   idx == hooks[h].unpack_idx
               IN  /\ last.run.start = TensorsOf(container)[k + idx + 1]
                   /\ last.run.status = "ok"
                   /\ last.run.retval
                         = ReplaceTensor(container, k + idx + 1, last.run.tensor)

\* A forward hook with unpack_idx -1 and an editing function adding one was
\* given a tuple of two tensors and returned it with the second one edited.
C26_Witness ==
    /\ RepackedFromEnd(1)
    /\ hooks[1]._hook_type = "forward"
    /\ hooks[1].unpack_idx = 0 - 1
    /\ last.args[3] = PyTuple(<<TensorA, TensorB>>)
    /\ last.run.start = TensorB
    /\ last.run.retval = PyTuple(<<TensorA, PyTensor(<<2, 1>>, <<4, 5>>)>>)

====
